---- MODULE Spec2Model ----
(***************************************************************************)
(* A model of the TrueSkill rating core of dominionstats:                  *)
(*   src/trueskill/trueskill.py  (Gaussian, Variable, SkillTable,          *)
(*                                update_trueskill_team)                   *)
(*   src/run_trueskill.py        (DbBackedSkillTable, update_skills_for_   *)
(*                                game, run_trueskill_openings)            *)
(*                                                                         *)
(* Numbers.  Skills are Python floats.  The model keeps them as integers   *)
(* in units of 1/30000, the coarsest unit in which every constant the      *)
(* code writes into a skill record is a whole number:                      *)
(*   25.0 = 750000, 25./3 = 250000, 25./300 = 2500, 0.0001 = 3.            *)
(* Gaussians of the factor graph are kept in natural parameters (pi, tau)  *)
(* as integers; products and quotients of Gaussians are sums and           *)
(* differences there, as in the code.  Rounding of IEEE doubles is not     *)
(* modelled.                                                               *)
(*                                                                         *)
(* Strings.  A key (player name or opening identifier) is a sequence of    *)
(* tokens; the token "open:" stands for the five characters 'open:', so    *)
(* name.startswith('open:') is "the first token is open:".                 *)
(***************************************************************************)
EXTENDS Integers, Sequences, FiniteSets, TLC

VARIABLES
  \* ---- a stand-alone skill table (SkillTable / DbBackedSkillTable) ----
  tblKind,        \* "SkillTable" or "DbBackedSkillTable"
  skill_infos,    \* the table's dict: key -> skill record
  coll,           \* the collection behind a DbBackedSkillTable: key -> stored record
  missing_calls,  \* per key: calls of the table's missing policy (observation only)
  store_reads,    \* per key: find_one calls on the collection (observation only)
  last_op,        \* the last operation called on the table (observation only)
  \* ---- a stand-alone Variable node with its attached factors ----
  value,          \* Variable.value, a Gaussian [pi, tau]
  factors,        \* Variable.factors: factor -> the message it last sent
  exc,            \* the exception the last factor operation raised, or "none"
  \* ---- results_to_ranks ----
  rank_decks,     \* the decks of a match whose ranks are computed
  results,        \* their ordering keys, the list handed to results_to_ranks
  ranks,          \* its return value (<<>> before the call)
  \* ---- the rating driver, run_trueskill_openings ----
  games,          \* db.games: the match records in scanner order
  pc,             \* position of the driver process
  runs,           \* driver runs started so far
  incremental,    \* args.incremental of the current run
  max_games,      \* args.max_games of the current run
  ind,            \* the loop index of enumerate()
  game,           \* the record the scanner yielded last (<<>> if none)
  scannerPos,     \* the scanner's in-memory cursor (records yielded so far)
  scannerSaved,   \* the cursor in the durable store (db.scanner)
  player_skill_table,   \* player_skill_table.skill_infos
  opening_skill_table,  \* opening_skill_table.skill_infos
  player_collection,    \* db.trueskill_players_dev
  collection,           \* db.trueskill_openings_dev
  \* ---- history of the current driver run (observation only) ----
  calls,          \* the update_trueskill_team calls of the last processed record
  pending,        \* per table: stream positions updated in memory and not yet saved
  events,         \* per loop index of this run: what the end of the iteration did
  run_start,      \* how the run before ended, and the player collection when this one began
  \* ---- the global parameters of trueskill.py ----
  BETA,
  EPSILON,
  GAMMA,
  set_call,       \* the arguments and outcome of the last SetParameters call
  \* ---- one call of update_trueskill_team and one of AdjustPlayers ----
  given_teams,    \* the caller's list of team results
  tu,             \* the outcome of update_trueskill_team(given_teams, table)
  given_players,  \* the caller's list of player objects
  adj             \* the outcome of AdjustPlayers(given_players)

tableVars  == <<tblKind, skill_infos, coll, missing_calls, store_reads, last_op>>
nodeVars   == <<value, factors, exc>>
rankVars   == <<rank_decks, results, ranks>>
driverVars == <<games, pc, runs, incremental, max_games, ind, game, scannerPos,
                scannerSaved, player_skill_table, opening_skill_table,
                player_collection, collection, calls, pending, events,
                run_start>>
paramVars  == <<BETA, EPSILON, GAMMA, set_call>>
teamVars   == <<given_teams, tu, given_players, adj>>
vars == <<tableVars, nodeVars, rankVars, driverVars, paramVars, teamVars>>

----------------------------------------------------------------------------
(* Fixed-point constants of the skill records *)

\* 25.0 (mu of a new player; INITIAL_MU)
MU_PLAYER == 750000
\* 25./3 (sigma of every new record, and the target of add_uncertainty)
SIGMA_INIT == 250000
\* 25./300 (gamma of default_missing_func)
GAMMA_DEFAULT == 2500
\* 0.0001 (gamma of a new opening record)
GAMMA_OPENING == 3
\* 0. (mu of a new opening record, gamma of a new player record)
ZERO == 0

\* An attribute that was never assigned is <<>>, an assigned one is <<v>>.
Unset == <<>>
Some(v) == <<v>>

\* The empty dict.
EmptyDict == <<>>

Has(d, k) == k \in DOMAIN d

Put(d, k, v) == [x \in (DOMAIN d) \cup {k} |-> IF x = k THEN v ELSE d[x]]

startswith_open(name) == Len(name) >= 1 /\ name[1] = "open:"

----------------------------------------------------------------------------
(* trueskill.SetParameters and the globals BETA, EPSILON, GAMMA.  A keyword *)
(* argument that is None is Unset.  Probabilities are in hundredths.        *)

\* INITIAL_MU = 25.0
INITIAL_MU == 750000
\* INITIAL_SIGMA = INITIAL_MU / 3.0
INITIAL_SIGMA == INITIAL_MU \div 3

\* icdf((p+1.0)/2) * sqrt(total_players) for total_players = 2, in
\* thousandths, at the probabilities the model draws:
\* icdf(0.55) * sqrt(2) = 0.178, icdf(0.75) * sqrt(2) = 0.954.
margin_per_beta(p) == CASE p = 10 -> 178 [] p = 50 -> 954

\* DrawMargin(p, beta)
DrawMargin(p, beta) == (margin_per_beta(p) * beta) \div 1000

\* draw_probability = 0.10 when neither epsilon nor draw_probability is given
DEFAULT_DRAW_PROBABILITY == 10

\* SetParameters(beta, epsilon, draw_probability, gamma): the three globals
\* afterwards and the exception raised.  No path of the function raises.
set_parameters(beta, epsilon, draw_probability, gamma) ==
  LET b == IF beta = Unset THEN (INITIAL_SIGMA * 3) \div 2 ELSE beta[1]
      p == IF draw_probability = Unset THEN DEFAULT_DRAW_PROBABILITY
                                       ELSE draw_probability[1]
  IN  [BETA    |-> b,
       EPSILON |-> IF epsilon = Unset THEN DrawMargin(p, b) ELSE epsilon[1],
       GAMMA   |-> IF gamma = Unset THEN INITIAL_SIGMA \div 100 ELSE gamma[1],
       raised  |-> "none"]

\* Values a caller passes.
BetaInputs == {Unset, Some(150000), Some(300000), Some(375000), Some(450000)}
EpsilonInputs == {Unset, Some(30000), Some(66750)}
DrawProbabilityInputs == {Unset, Some(10), Some(50)}
GammaInputs == {Unset, Some(2500), Some(5000)}

NoCall == [called |-> FALSE]

\* The module is imported: line 329 calls SetParameters().
InitParams ==
  /\ BETA = set_parameters(Unset, Unset, Unset, Unset).BETA
  /\ EPSILON = set_parameters(Unset, Unset, Unset, Unset).EPSILON
  /\ GAMMA = set_parameters(Unset, Unset, Unset, Unset).GAMMA
  /\ set_call = NoCall

SetParameters(beta, epsilon, draw_probability, gamma) ==
  LET r == set_parameters(beta, epsilon, draw_probability, gamma)
  IN  /\ BETA' = r.BETA
      /\ EPSILON' = r.EPSILON
      /\ GAMMA' = r.GAMMA
      /\ set_call' = [called |-> TRUE, beta |-> beta, epsilon |-> epsilon,
                      draw_probability |-> draw_probability, gamma |-> gamma,
                      raised |-> r.raised]
      /\ UNCHANGED <<tableVars, nodeVars, rankVars, driverVars, teamVars>>

NextParams ==
  \E beta \in BetaInputs, epsilon \in EpsilonInputs,
     draw_probability \in DrawProbabilityInputs, gamma \in GammaInputs :
    SetParameters(beta, epsilon, draw_probability, gamma)

----------------------------------------------------------------------------
(* trueskill.SkillInfo, default_missing_func, SkillTable *)

SkillInfo(mu, sigma, gamma) ==
  [mu |-> mu, sigma |-> sigma, gamma |-> gamma,
   floor |-> Some(mu - 3 * sigma), ceil |-> Some(mu + 3 * sigma)]

default_missing_func(name) == SkillInfo(MU_PLAYER, SIGMA_INIT, GAMMA_DEFAULT)

\* A slip in _db_backed_missing_func: the collection is not read, every
\* record starts from its prior.
db_backed_missing_func_unhydrated(db, name) ==
  IF startswith_open(name)
    THEN [mu |-> ZERO, sigma |-> SIGMA_INIT, gamma |-> GAMMA_OPENING,
          floor |-> Unset, ceil |-> Unset]
    ELSE [mu |-> MU_PLAYER, sigma |-> SIGMA_INIT, gamma |-> ZERO,
          floor |-> Unset, ceil |-> Unset]

\* DbBackedSkillTable._db_backed_missing_func, for a name not yet in the dict
\* (the caller, _get_skill_info, asks only for those): a PrimitiveSkillInfo
\* gets mu, sigma and gamma, from the stored record if there is one; its floor
\* and ceil attributes are not assigned.
db_backed_missing_func(db, name) ==
  IF Has(db, name)
    THEN [mu |-> db[name].mu, sigma |-> db[name].sigma, gamma |-> db[name].gamma,
          floor |-> Unset, ceil |-> Unset]
    ELSE IF startswith_open(name)
      THEN [mu |-> ZERO, sigma |-> SIGMA_INIT, gamma |-> GAMMA_OPENING,
            floor |-> Unset, ceil |-> Unset]
      ELSE [mu |-> MU_PLAYER, sigma |-> SIGMA_INIT, gamma |-> ZERO,
            floor |-> Unset, ceil |-> Unset]

\* The missing policy of a table of the given kind.
missing_func(kind, db, name) ==
  IF kind = "SkillTable" THEN default_missing_func(name)
                         ELSE db_backed_missing_func(db, name)

\* A slip in _get_skill_info: the missing policy builds the record of every
\* lookup.
get_skill_info_rehydrates(kind, db, d, key) == Put(d, key, missing_func(kind, db, key))

\* SkillTable._get_skill_info: the dict after the lookup (the record is d[key]).
get_skill_info(kind, db, d, key) ==
  IF Has(d, key) THEN d ELSE Put(d, key, missing_func(kind, db, key))

\* The calls of self.missing_func one lookup makes (lines 351-352).
missing_calls_of_lookup(d, key) == IF Has(d, key) THEN 0 ELSE 1

\* The find_one calls one call of the missing policy makes: none by
\* default_missing_func, one by _db_backed_missing_func unless the name is in
\* the dict (lines 29-31).
store_reads_of_missing(kind, d, name) ==
  IF kind = "DbBackedSkillTable" /\ ~Has(d, name) THEN 1 ELSE 0

\* The counters after a table operation whose first lookup is of key on dict
\* d; the later lookups of the same operation find the key.
count_lookup(counts, n, key) == [counts EXCEPT ![key] = @ + n]

\* A slip in set_mu: the mean is assigned in every record.
set_mu_everyone(kind, db, d, player, mu) ==
  LET d1 == get_skill_info(kind, db, d, player)
  IN  [k \in DOMAIN d1 |-> [d1[k] EXCEPT !.mu = mu]]

set_mu(kind, db, d, player, mu) ==
  LET d1 == get_skill_info(kind, db, d, player)
  IN  [d1 EXCEPT ![player].mu = mu]

update_floor_and_ceil(kind, db, d, player) ==
  LET d1 == get_skill_info(kind, db, d, player)
      d2 == [d1 EXCEPT ![player].ceil = Some(d1[player].mu + 3 * d1[player].sigma)]
  IN  [d2 EXCEPT ![player].floor = Some(d2[player].mu - 3 * d2[player].sigma)]

set_sigma(kind, db, d, player, sigma) ==
  LET d1 == get_skill_info(kind, db, d, player)
      d2 == [d1 EXCEPT ![player].sigma = sigma]
  IN  update_floor_and_ceil(kind, db, d2, player)

----------------------------------------------------------------------------
(* The stand-alone skill table: any sequence of get, set_mu, set_sigma *)

\* Keys used on the stand-alone table: a player and an opening identifier.
TableKeys == {<<"alice">>, <<"open:", "silver">>}

\* Values handed to set_mu and set_sigma.
MuInputs == {ZERO, MU_PLAYER, 810000}
SigmaInputs == {SIGMA_INIT, 200000}

\* Records a collection may already hold when the table is constructed.
StoredRecords ==
  {[mu |-> 810000, sigma |-> 200000, gamma |-> ZERO,
    floor |-> Some(210000), ceil |-> Some(1410000)]}

NoOp == [op |-> "none", key |-> <<>>, arg |-> 0]

InitTable ==
  /\ tblKind \in {"SkillTable", "DbBackedSkillTable"}
  /\ skill_infos = EmptyDict
  /\ missing_calls = [k \in TableKeys |-> 0]
  /\ store_reads = [k \in TableKeys |-> 0]
  /\ last_op = NoOp
  /\ coll \in {EmptyDict} \cup
              {Put(EmptyDict, k, r) : k \in TableKeys, r \in StoredRecords}

\* get_mu / get_sigma / get_gamma: a lookup, which materializes a missing key.
\* The observation of an operation on key: the policy calls and store reads
\* of its lookup.
Observe(op, key, arg) ==
  LET calls_made == missing_calls_of_lookup(skill_infos, key)
  IN  /\ missing_calls' = count_lookup(missing_calls, calls_made, key)
      /\ store_reads' = count_lookup(store_reads,
                            calls_made * store_reads_of_missing(tblKind, skill_infos, key),
                            key)
      /\ last_op' = [op |-> op, key |-> key, arg |-> arg]

Get(key) ==
  /\ skill_infos' = get_skill_info(tblKind, coll, skill_infos, key)
  /\ Observe("get", key, 0)
  /\ UNCHANGED <<tblKind, coll, nodeVars, rankVars, driverVars, paramVars, teamVars>>

SetMu(key, mu) ==
  /\ skill_infos' = set_mu(tblKind, coll, skill_infos, key, mu)
  /\ Observe("set_mu", key, mu)
  /\ UNCHANGED <<tblKind, coll, nodeVars, rankVars, driverVars, paramVars, teamVars>>

SetSigma(key, sigma) ==
  /\ skill_infos' = set_sigma(tblKind, coll, skill_infos, key, sigma)
  /\ Observe("set_sigma", key, sigma)
  /\ UNCHANGED <<tblKind, coll, nodeVars, rankVars, driverVars, paramVars, teamVars>>

NextTable ==
  \/ \E k \in TableKeys : Get(k)
  \/ \E k \in TableKeys, m \in MuInputs : SetMu(k, m)
  \/ \E k \in TableKeys, s \in SigmaInputs : SetSigma(k, s)

----------------------------------------------------------------------------
(* trueskill.Gaussian in natural parameters, and trueskill.Variable *)

\* Gaussian(pi=..., tau=...); Gaussian() is the flat N(pi=0, tau=0).
Gaussian(pi, tau) == [pi |-> pi, tau |-> tau]
Flat == Gaussian(0, 0)

\* Gaussian.__mul__ and Gaussian.__div__
Mul(a, b) == Gaussian(a.pi + b.pi, a.tau + b.tau)
Div(a, b) == Gaussian(a.pi - b.pi, a.tau - b.tau)

\* Largest precision and precision-mean of a Gaussian a factor sends.
MaxPi == 1
MaxTau == 1
\* Number of factors that attach to the variable.
NFactors == 2
\* Largest magnitude of a recorded message's parameters that is followed up.
MaxRecorded == 2

FactorIds == 1..NFactors
Messages == {Gaussian(p, t) : p \in 0..MaxPi, t \in (0 - MaxTau)..MaxTau}

InitNode ==
  /\ value = Flat
  /\ factors = EmptyDict
  /\ exc = "none"

\* Variable.AttachFactor, called once per factor by Factor.__init__.
AttachFactor(f) ==
  /\ ~Has(factors, f)
  /\ factors' = Put(factors, f, Flat)
  /\ exc' = "none"
  /\ UNCHANGED <<value, tableVars, rankVars, driverVars, paramVars, teamVars>>

\* A slip in UpdateMessage: the old message is not divided out.
UpdateMessageValue_KeepsOld(val, old_message, message) == Mul(val, message)

\* Variable.UpdateMessage
UpdateMessageValue(val, old_message, message) == Mul(Div(val, old_message), message)

UpdateMessage(f, message) ==
  /\ Has(factors, f)
  /\ value' = UpdateMessageValue(value, factors[f], message)
  /\ factors' = [factors EXCEPT ![f] = message]
  /\ exc' = "none"
  /\ UNCHANGED <<tableVars, rankVars, driverVars, paramVars, teamVars>>

\* Variable.UpdateValue: the message recorded for the factor
UpdateValueMessage(val, old_message, v) == Div(Mul(v, old_message), val)

InRange(g) ==
  /\ g.pi \in (0 - MaxRecorded)..MaxRecorded
  /\ g.tau \in (0 - MaxRecorded)..MaxRecorded

UpdateValue(f, v) ==
  /\ Has(factors, f)
  /\ InRange(UpdateValueMessage(value, factors[f], v))
  /\ factors' = [factors EXCEPT ![f] = UpdateValueMessage(value, factors[f], v)]
  /\ value' = v
  /\ exc' = "none"
  /\ UNCHANGED <<tableVars, rankVars, driverVars, paramVars, teamVars>>

NextNode ==
  \/ \E f \in FactorIds : AttachFactor(f)
  \/ \E f \in FactorIds, m \in Messages : UpdateMessage(f, m)
  \/ \E f \in FactorIds, v \in Messages : UpdateValue(f, v)

----------------------------------------------------------------------------
(* trueskill.TruncateFactor.Update on the variable node.  The numbers are   *)
(* Python floats; what the factor's V and W functions return is an input:   *)
(* V a whole number, W in halves.                                           *)

TruncV == {-1, 0, 1}
\* W = 0, 0.5, 1.0, 1.5
TruncW == 0..3

\* math.sqrt, followed up where the root is a whole number
is_square(c) == \E r \in 0..c : r * r = c
sqrt(c) == CHOOSE r \in 0..c : r * r = c

\* c = x.pi - fx.pi and d = x.tau - fx.tau (lines 257-261)
truncate_c(x, fx) == x.pi - fx.pi
truncate_d(x, fx) == x.tau - fx.tau

\* What lines 262-266 raise: math.sqrt of a negative number is a ValueError,
\* d / sqrt_c with sqrt_c = 0.0 and c / (1.0 - W) with W = 1.0 are a
\* ZeroDivisionError.  Nothing in Update tests c or W, and nothing catches.
truncate_raises(c, W) ==
  IF c < 0 THEN "ValueError"
  ELSE IF c = 0 THEN "ZeroDivisionError"
  ELSE IF W = 2 THEN "ZeroDivisionError"
  ELSE "none"

\* x / (1.0 - W), W in halves and not 1.0
over_one_minus(x, W) ==
  IF W < 2 THEN (2 * x) \div (2 - W) ELSE 0 - ((2 * x) \div (W - 2))

\* new_val = Gaussian(pi=c / (1.0 - W), tau=(d + sqrt_c * V) / (1.0 - W))
truncate_new_val(c, d, V, W) ==
  Gaussian(over_one_minus(c, W), over_one_minus(d + sqrt(c) * V, W))

\* TruncateFactor.Update of the truncation factor f attached to the variable.
TruncateUpdate(f, V, W) ==
  /\ Has(factors, f)
  /\ LET c == truncate_c(value, factors[f])
         d == truncate_d(value, factors[f])
     IN  /\ c <= 0 \/ is_square(c)
         /\ exc' = truncate_raises(c, W)
         /\ IF truncate_raises(c, W) = "none"
              THEN LET new_val == truncate_new_val(c, d, V, W)
                   IN  /\ InRange(new_val)
                       /\ InRange(UpdateValueMessage(value, factors[f], new_val))
                       /\ factors' = [factors EXCEPT
                                        ![f] = UpdateValueMessage(value, factors[f], new_val)]
                       /\ value' = new_val
              ELSE UNCHANGED <<value, factors>>
  /\ UNCHANGED <<tableVars, rankVars, driverVars, paramVars, teamVars>>

NextTruncateNode ==
  \/ \E f \in FactorIds : AttachFactor(f)
  \/ \E f \in FactorIds, m \in Messages : UpdateMessage(f, m)
  \/ \E f \in FactorIds, v \in Messages : UpdateValue(f, v)
  \/ \E f \in FactorIds, V \in TruncV, W \in TruncW : TruncateUpdate(f, V, W)

----------------------------------------------------------------------------
(* run_trueskill.results_to_ranks *)

\* Python's order on the (-vp, nturns) tuples: lexicographic.
TupleLess(a, b) == a[1] < b[1] \/ (a[1] = b[1] /\ a[2] < b[2])

\* sorted(results): insertion of each element behind the elements not above it.
RECURSIVE InsertTuple(_, _)
InsertTuple(s, x) ==
  IF s = <<>> THEN <<x>>
  ELSE IF TupleLess(x, Head(s)) THEN <<x>> \o s
  ELSE <<Head(s)>> \o InsertTuple(Tail(s), x)

RECURSIVE sorted(_)
sorted(s) == IF s = <<>> THEN <<>> ELSE InsertTuple(sorted(SubSeq(s, 1, Len(s) - 1)), s[Len(s)])

\* list.index(r): the 0-based position of the first element equal to r.
index(s, r) == (CHOOSE i \in 1..Len(s) : s[i] = r /\ \A j \in 1..(i - 1) : s[j] # r) - 1

\* A slip in results_to_ranks: the position is taken in the unsorted list.
results_to_ranks_unsorted(res) == [i \in 1..Len(res) |-> index(res, res[i])]

results_to_ranks(res) ==
  LET sorted_results == sorted(res)
  IN  [i \in 1..Len(res) |-> index(sorted_results, res[i])]

----------------------------------------------------------------------------
(* Match records: game['decks'], deck['name'|'points'|'resigned'|'turns'],  *)
(* turn.get('buys', []).  A turn is the list of its buys; a turn without a *)
(* 'buys' entry is the empty list.                                         *)

\* 'vp' of a resigned deck
RESIGNED_VP == -1000
\* deck['name'][:80]
NAME_LIMIT == 80
\* contributions, in tenths: [0.5, 0.5] and [1.0]
HALF == 5
ONE == 10

\* Python's order on the card names that occur.
CardOrder == [c \in {"copper", "resign", "silver"} |->
                CASE c = "copper" -> 1 [] c = "resign" -> 2 [] c = "silver" -> 3]

RECURSIVE InsertCard(_, _)
InsertCard(s, x) ==
  IF s = <<>> THEN <<x>>
  ELSE IF CardOrder[x] < CardOrder[Head(s)] THEN <<x>> \o s
  ELSE <<Head(s)>> \o InsertCard(Tail(s), x)

\* opening.sort()
RECURSIVE sort_cards(_)
sort_cards(s) ==
  IF s = <<>> THEN <<>> ELSE InsertCard(sort_cards(SubSeq(s, 1, Len(s) - 1)), s[Len(s)])

\* The deck has the two turns an opening is read from.
has_opening(deck) == Len(deck.turns) >= 2

\* 'open:' + '+'.join(opening), the opening being the sorted buys of the first
\* two turns, or ['resign'] for a deck with fewer than two turns.
open_name(deck) ==
  LET opening == IF has_opening(deck) THEN deck.turns[1] \o deck.turns[2]
                                      ELSE <<"resign">>
  IN  <<"open:">> \o sort_cards(opening)

\* (-vp, nturns)
ordering_key(deck) ==
  LET vp == IF deck.resigned THEN RESIGNED_VP ELSE deck.points
  IN  <<0 - vp, Len(deck.turns)>>

player_name(deck) ==
  SubSeq(deck.name, 1, IF Len(deck.name) < NAME_LIMIT THEN Len(deck.name) ELSE NAME_LIMIT)

\* A slip in the loop over game['decks']: a deck without an opening does not
\* set dups.
RECURSIVE scan_decks_resign_not_flagged(_, _)
scan_decks_resign_not_flagged(decks, n) ==
  IF n = 0
    THEN [teams |-> <<>>, results |-> <<>>, openings |-> <<>>, dups |-> FALSE]
    ELSE LET acc == scan_decks_resign_not_flagged(decks, n - 1)
             deck == decks[n]
             name == open_name(deck)
         IN  [teams    |-> Append(acc.teams, <<name, player_name(deck)>>),
              results  |-> Append(acc.results, ordering_key(deck)),
              openings |-> Append(acc.openings, name),
              dups     |-> \/ acc.dups
                           \/ \E j \in 1..Len(acc.openings) : acc.openings[j] = name]

\* The loop over game['decks'] of update_skills_for_game, after n decks.
RECURSIVE scan_decks(_, _)
scan_decks(decks, n) ==
  IF n = 0
    THEN [teams |-> <<>>, results |-> <<>>, openings |-> <<>>, dups |-> FALSE]
    ELSE LET acc == scan_decks(decks, n - 1)
             deck == decks[n]
             name == open_name(deck)
         IN  [teams    |-> Append(acc.teams, <<name, player_name(deck)>>),
              results  |-> Append(acc.results, ordering_key(deck)),
              openings |-> Append(acc.openings, name),
              dups     |-> \/ acc.dups
                           \/ ~has_opening(deck)
                           \/ \E j \in 1..Len(acc.openings) : acc.openings[j] = name]

----------------------------------------------------------------------------
(* trueskill.update_trueskill_team.  A team result is                      *)
(* [members, contributions, rank].                                         *)

TeamResult(members, contributions, rank) ==
  [members |-> members, contributions |-> contributions, rank |-> rank]

\* team_results.sort(key=lambda t: t[2]): a stable sort, so a team goes behind
\* every team whose rank is not above its own.
RECURSIVE InsertTeam(_, _)
InsertTeam(s, x) ==
  IF s = <<>> THEN <<x>>
  ELSE IF x.rank < Head(s).rank THEN <<x>> \o s
  ELSE <<Head(s)>> \o InsertTeam(Tail(s), x)

RECURSIVE sort_by_rank(_)
sort_by_rank(s) ==
  IF s = <<>> THEN <<>>
  ELSE InsertTeam(sort_by_rank(SubSeq(s, 1, Len(s) - 1)), s[Len(s)])

\* players = [p for team in team_results for p in team[0]], each with its
\* contribution and the index of its team.
RECURSIVE flatten(_, _)
flatten(ts, n) ==
  IF n = 0 THEN <<>>
  ELSE flatten(ts, n - 1) \o
       [j \in 1..Len(ts[n].members) |->
          [pl |-> ts[n].members[j], contrib |-> ts[n].contributions[j], team |-> n]]

\* The lookups get_mu, get_sigma, get_gamma of the prior factors, in player
\* order: they materialize the keys the table does not hold yet.
RECURSIVE lookup_all(_, _, _, _, _)
lookup_all(kind, db, d, players, n) ==
  IF n = 0 THEN d
  ELSE get_skill_info(kind, db, lookup_all(kind, db, d, players, n - 1), players[n].pl)

\* A slip in the choice of the truncation factor: never a draw.
is_draw_never(t1, t2) == FALSE

\* The truncation factor between adjacent teams t and t+1 is a 'win' factor
\* unless the two ranks are equal ('draw').
is_draw(t1, t2) == t1.rank = t2.rank

\* The factor-graph sweep (prior, likelihood, sum and truncation factors, five
\* iterations, and the way back up): the (mu, sigma) read off the player's
\* skill variable.  The sweep's arithmetic goes through the normal pdf and cdf
\* and is not reproduced; what is kept is what the sweep depends on and the
\* direction of its result: the prior N(mu, sigma + gamma) of the player, the
\* contribution, and the win/draw factors of the player's team towards the
\* team ranked before it and the team ranked after it.  A player gains
\* precision from every game, moves up by beating the next team and down by
\* losing to the previous one, by an amount that grows with the prior sigma.
posterior(mu, sigma, gamma, contrib, beaten, beats) ==
  LET prior_sigma == sigma + gamma
      step == (prior_sigma * contrib) \div (2 * ONE)
      won == IF beats THEN 1 ELSE 0
      lost == IF beaten THEN 1 ELSE 0
  IN  [mu |-> mu + (won - lost) * step,
       sigma |-> prior_sigma - (prior_sigma * contrib) \div (8 * ONE)]

\* The new skill of the n-th player of the flattened list.
new_skill(ts, players, d, n) ==
  LET t == players[n].team
      info == d[players[n].pl]
  IN  posterior(info.mu, info.sigma, info.gamma, players[n].contrib,
                t > 1 /\ ~is_draw(ts[t - 1], ts[t]),
                t < Len(ts) /\ ~is_draw(ts[t], ts[t + 1]))

\* mu, sigma = s.value.MuSigma() for every s of ss, in player order: what the
\* sweep leaves in the skill variable of each occurrence of a member.
skill_values(ts, priors) ==
  LET players == flatten(ts, Len(ts))
  IN  [n \in 1..Len(players) |-> new_skill(ts, players, priors, n)]

\* A slip in the write-back: the players are written from the last to the
\* first.
RECURSIVE write_back_reversed(_, _, _, _, _, _, _)
write_back_reversed(kind, db, ts, players, priors, d, n) ==
  IF n = 0 THEN d
  ELSE LET before == write_back_reversed(kind, db, ts, players, priors, d, n - 1)
           q == Len(players) - n + 1
           new == new_skill(ts, players, priors, q)
       IN  set_sigma(kind, db,
                     set_mu(kind, db, before, players[q].pl, new.mu),
                     players[q].pl, new.sigma)

\* for s, pl in zip(ss, players): set_mu(pl, mu); set_sigma(pl, sigma)
RECURSIVE write_back(_, _, _, _, _, _, _)
write_back(kind, db, ts, players, priors, d, n) ==
  IF n = 0 THEN d
  ELSE LET before == write_back(kind, db, ts, players, priors, d, n - 1)
           new == new_skill(ts, players, priors, n)
       IN  set_sigma(kind, db,
                     set_mu(kind, db, before, players[n].pl, new.mu),
                     players[n].pl, new.sigma)

\* players = [p for team in team_results for p in team[0]], each with the
\* index of its team.
RECURSIVE member_list(_, _)
member_list(ts, n) ==
  IF n = 0 THEN <<>>
  ELSE member_list(ts, n - 1) \o
       [j \in 1..Len(ts[n].members) |-> [pl |-> ts[n].members[j], team |-> n]]

\* player_counter when the loop of lines 405-411 reaches team m.
RECURSIVE player_counter(_, _)
player_counter(ts, m) ==
  IF m <= 1 THEN 0 ELSE player_counter(ts, m - 1) + Len(ts[m - 1].members)

\* assert len(terms_variables) == len(coeffs) of the SumFactor of team m: the
\* terms are the slice ps[player_counter:player_counter+teamsize].
sum_factor_asserts(team) == Len(team.members) = Len(team.contributions)

\* The variable nodes are named by their list and index: <<"s", i>>,
\* <<"p", i>>, <<"t", m>>, <<"d", m>>.  The factor graph of lines 389-422 for
\* the sorted team results ts and the table after the prior lookups:
\*   skill          PriorFactor(s, Gaussian(mu, sigma + gamma))
\*   skill_to_perf  LikelihoodFactor(s, p, BETA**2)
\*   perf_to_team   SumFactor(t, ps[...], contrib)
\*   team_diff      SumFactor(d, [t1, t2], [+1, -1])
\*   trunc          TruncateFactor(d, Vdraw/Vwin, Wdraw/Wwin, EPSILON)
\* Coefficients are in tenths.
team_graph(ts, priors) ==
  LET pls == member_list(ts, Len(ts))
      nd == IF Len(ts) = 0 THEN 0 ELSE Len(ts) - 1
  IN  [ss |-> Len(pls), ps |-> Len(pls), ts |-> Len(ts), ds |-> nd,
       skill |-> [i \in 1..Len(pls) |->
                    [var |-> <<"s", i>>,
                     mu |-> priors[pls[i].pl].mu,
                     sigma |-> priors[pls[i].pl].sigma + priors[pls[i].pl].gamma]],
       skill_to_perf |-> [i \in 1..Len(pls) |->
                    [mean |-> <<"s", i>>, value |-> <<"p", i>>, beta |-> BETA]],
       perf_to_team |-> [m \in 1..Len(ts) |->
                    [sum |-> <<"t", m>>,
                     terms |-> [j \in 1..Len(ts[m].members) |->
                                  <<"p", player_counter(ts, m) + j>>],
                     coeffs |-> ts[m].contributions]],
       team_diff |-> [m \in 1..nd |->
                    [sum |-> <<"d", m>>,
                     terms |-> <<<<"t", m>>, <<"t", m + 1>>>>,
                     coeffs |-> <<ONE, 0 - ONE>>]],
       trunc |-> [m \in 1..nd |->
                    [var |-> <<"d", m>>,
                     kind |-> IF is_draw(ts[m], ts[m + 1]) THEN "draw" ELSE "win",
                     epsilon |-> EPSILON]]]

\* for i in range(5)
ITERATIONS == 5

\* One message update: the method called, the factor's list and index, and
\* the argument of UpdateTerm.
Step(op, layer, i, term) == [op |-> op, layer |-> layer, i |-> i, term |-> term]

RECURSIVE repeat(_, _)
repeat(steps, n) == IF n = 0 THEN <<>> ELSE steps \o repeat(steps, n - 1)

\* for f in perf_to_team: for t in xrange(len(f.terms)): f.UpdateTerm(t)
RECURSIVE up_terms(_, _)
up_terms(g, m) ==
  IF m = 0 THEN <<>>
  ELSE up_terms(g, m - 1) \o
       [t \in 1..Len(g.perf_to_team[m].terms) |->
          Step("UpdateTerm", "perf_to_team", m, t - 1)]

\* A slip in the sweep: the team-difference terms are updated before the
\* truncation factors.
message_schedule_terms_first(g) ==
  LET iteration ==
        [m \in 1..g.ds |-> Step("UpdateSum", "team_diff", m, 0)] \o
        [k \in 1..(2 * g.ds) |->
           Step("UpdateTerm", "team_diff", (k + 1) \div 2, (k + 1) % 2)] \o
        [m \in 1..g.ds |-> Step("Update", "trunc", m, 0)]
  IN  [i \in 1..g.ss |-> Step("Start", "skill", i, 0)] \o
      [i \in 1..g.ss |-> Step("UpdateValue", "skill_to_perf", i, 0)] \o
      [m \in 1..g.ts |-> Step("UpdateSum", "perf_to_team", m, 0)] \o
      repeat(iteration, ITERATIONS) \o
      up_terms(g, g.ts) \o
      [i \in 1..g.ss |-> Step("UpdateMean", "skill_to_perf", i, 0)]

\* The message updates of lines 427-468, in the order they are made.
message_schedule(g) ==
  LET iteration ==
        [m \in 1..g.ds |-> Step("UpdateSum", "team_diff", m, 0)] \o
        [m \in 1..g.ds |-> Step("Update", "trunc", m, 0)] \o
        [k \in 1..(2 * g.ds) |->
           Step("UpdateTerm", "team_diff", (k + 1) \div 2, (k + 1) % 2)]
  IN  [i \in 1..g.ss |-> Step("Start", "skill", i, 0)] \o
      [i \in 1..g.ss |-> Step("UpdateValue", "skill_to_perf", i, 0)] \o
      [m \in 1..g.ts |-> Step("UpdateSum", "perf_to_team", m, 0)] \o
      repeat(iteration, ITERATIONS) \o
      up_terms(g, g.ts) \o
      [i \in 1..g.ss |-> Step("UpdateMean", "skill_to_perf", i, 0)]

\* The message updates that raise ZeroDivisionError on Python floats, the
\* priors having positive sigma:
\*  - UpdateSum of a perf_to_team factor none of whose coefficients is
\*    non-zero: 1.0 / sum(a[j]**2 / ...) divides by zero (line 206);
\*  - UpdateTerm(index) of a perf_to_team factor whose coefficient b[index]
\*    is zero (lines 235-236);
\*  - UpdateTerm of a perf_to_team factor whose team variable has no other
\*    factor (a single team, no team_diff): its value is the message of this
\*    factor, y.pi - fy.pi is 0.0 and a[j]**2 / 0.0 divides by zero (line 206).
step_raises(g, st) ==
  /\ st.layer = "perf_to_team"
  /\ LET coeffs == g.perf_to_team[st.i].coeffs
     IN  \/ st.op = "UpdateSum" /\ \A j \in 1..Len(coeffs) : coeffs[j] = 0
         \/ st.op = "UpdateTerm" /\ coeffs[st.term + 1] = 0
         \/ st.op = "UpdateTerm" /\ g.ds = 0

\* The index of the first message update that raises, 0 if none does.
first_raising(g, steps) ==
  IF \E k \in 1..Len(steps) : step_raises(g, steps[k])
    THEN CHOOSE k \in 1..Len(steps) :
           /\ step_raises(g, steps[k])
           /\ \A j \in 1..(k - 1) : ~step_raises(g, steps[j])
    ELSE 0

\* for s, pl in zip(ss, players): set_mu(pl, mu); set_sigma(pl, sigma)
table_writes(n) ==
  [k \in 1..(2 * n) |->
     Step(IF k % 2 = 1 THEN "set_mu" ELSE "set_sigma", "skill_table", (k + 1) \div 2, 0)]

NoGraph == [built |-> FALSE]

\* A slip in the order of the call: the new skills are written to the table
\* before the message updates are made, so a call that raises in a message
\* update has already written.
team_update_writes_early(team_results, kind, db, d) ==
  LET ts == sort_by_rank(team_results)
      pls == member_list(ts, Len(ts))
      priors == lookup_all(kind, db, d, pls, Len(pls))
  IN  IF \E m \in 1..Len(ts) : ~sum_factor_asserts(ts[m])
        THEN [raised |-> "AssertionError", table |-> priors, sorted |-> ts,
              graph |-> NoGraph, steps |-> <<>>, skills |-> <<>>]
        ELSE LET g == team_graph(ts, priors)
                 steps == message_schedule(g)
                 k == first_raising(g, steps)
                 written == write_back(kind, db, ts, flatten(ts, Len(ts)),
                                       priors, priors, Len(pls))
             IN  [raised |-> IF k > 0 THEN "ZeroDivisionError" ELSE "none",
                  table |-> written, sorted |-> ts, graph |-> g,
                  steps |-> IF k > 0 THEN SubSeq(steps, 1, k)
                                     ELSE steps \o table_writes(Len(pls)),
                  skills |-> IF k > 0 THEN <<>> ELSE skill_values(ts, priors)]

\* update_trueskill_team(team_results, skill_table): the exception raised,
\* the table's dict afterwards, the list as sorted in place, the factor graph,
\* the calls made on its factors and on the table, in order, and the skills
\* read off the skill variables.  An exception leaves the table with the
\* records the prior lookups inserted.
team_update(team_results, kind, db, d) ==
  LET ts == sort_by_rank(team_results)
      pls == member_list(ts, Len(ts))
      priors == lookup_all(kind, db, d, pls, Len(pls))
  IN  IF \E m \in 1..Len(ts) : ~sum_factor_asserts(ts[m])
        THEN [raised |-> "AssertionError", table |-> priors, sorted |-> ts,
              graph |-> NoGraph, steps |-> <<>>, skills |-> <<>>]
        ELSE LET g == team_graph(ts, priors)
                 steps == message_schedule(g)
                 k == first_raising(g, steps)
             IN  IF k > 0
                   THEN [raised |-> "ZeroDivisionError", table |-> priors,
                         sorted |-> ts, graph |-> g, steps |-> SubSeq(steps, 1, k),
                         skills |-> <<>>]
                   ELSE [raised |-> "none",
                         table |-> write_back(kind, db, ts, flatten(ts, Len(ts)),
                                              priors, priors, Len(pls)),
                         sorted |-> ts, graph |-> g,
                         steps |-> steps \o table_writes(Len(pls)),
                         skills |-> skill_values(ts, priors)]

\* update_trueskill_team(team_results, skill_table): the table's dict afterwards.
update_trueskill_team(team_results, kind, db, d) ==
  team_update(team_results, kind, db, d).table

----------------------------------------------------------------------------
(* trueskill.AdjustPlayers.  A player object is [skill |-> <<mu, sigma>>,   *)
(* rank |-> r]; its identity is its place in the caller's list.             *)

\* A slip in the sort of the players: a player goes before those of its rank.
RECURSIVE InsertPlayer_before_equals(_, _, _)
InsertPlayer_before_equals(pls, s, x) ==
  IF s = <<>> THEN <<x>>
  ELSE IF pls[x].rank <= pls[Head(s)].rank THEN <<x>> \o s
  ELSE <<Head(s)>> \o InsertPlayer_before_equals(pls, Tail(s), x)

\* players.sort(key=lambda p: p.rank) on the copy of the list: a stable sort.
\* The sorted list is kept as the places the players have in the caller's
\* list.
RECURSIVE InsertPlayer(_, _, _)
InsertPlayer(pls, s, x) ==
  IF s = <<>> THEN <<x>>
  ELSE IF pls[x].rank < pls[Head(s)].rank THEN <<x>> \o s
  ELSE <<Head(s)>> \o InsertPlayer(pls, Tail(s), x)

RECURSIVE sort_players(_, _)
sort_players(pls, n) ==
  IF n = 0 THEN <<>> ELSE InsertPlayer(pls, sort_players(pls, n - 1), n)

\* The factor graph of lines 503-525.
adjust_graph(pls, order) ==
  LET n == Len(order)
      nd == IF n = 0 THEN 0 ELSE n - 1
  IN  [ss |-> n, ps |-> n, ts |-> n, ds |-> nd,
       skill |-> [i \in 1..n |->
                    [var |-> <<"s", i>>,
                     mu |-> pls[order[i]].skill[1],
                     sigma |-> pls[order[i]].skill[2] + GAMMA]],
       skill_to_perf |-> [i \in 1..n |->
                    [mean |-> <<"s", i>>, value |-> <<"p", i>>, beta |-> BETA]],
       perf_to_team |-> [m \in 1..n |->
                    [sum |-> <<"t", m>>, terms |-> <<<<"p", m>>>>, coeffs |-> <<ONE>>]],
       team_diff |-> [m \in 1..nd |->
                    [sum |-> <<"d", m>>,
                     terms |-> <<<<"t", m>>, <<"t", m + 1>>>>,
                     coeffs |-> <<ONE, 0 - ONE>>]],
       trunc |-> [m \in 1..nd |->
                    [var |-> <<"d", m>>,
                     kind |-> IF pls[order[m]].rank = pls[order[m + 1]].rank
                                THEN "draw" ELSE "win",
                     epsilon |-> EPSILON]]]

\* The message updates of lines 530-560, in the order they are made.
adjust_schedule(g) ==
  LET iteration ==
        [m \in 1..g.ds |-> Step("UpdateSum", "team_diff", m, 0)] \o
        [m \in 1..g.ds |-> Step("Update", "trunc", m, 0)] \o
        [k \in 1..(2 * g.ds) |->
           Step("UpdateTerm", "team_diff", (k + 1) \div 2, (k + 1) % 2)]
  IN  [i \in 1..g.ss |-> Step("Start", "skill", i, 0)] \o
      [i \in 1..g.ss |-> Step("UpdateValue", "skill_to_perf", i, 0)] \o
      [m \in 1..g.ts |-> Step("UpdateSum", "perf_to_team", m, 0)] \o
      repeat(iteration, ITERATIONS) \o
      [m \in 1..g.ts |-> Step("UpdateTerm", "perf_to_team", m, 0)] \o
      [i \in 1..g.ss |-> Step("UpdateMean", "skill_to_perf", i, 0)]

\* pl.skill = s.value.MuSigma() of the player at place q of the sorted list:
\* the same sweep as in update_trueskill_team, on this graph.
adjust_skill(pls, order, q) ==
  LET pl == pls[order[q]]
  IN  posterior(pl.skill[1], pl.skill[2], GAMMA, ONE,
                q > 1 /\ pls[order[q - 1]].rank # pl.rank,
                q < Len(order) /\ pl.rank # pls[order[q + 1]].rank)

\* AdjustPlayers(players): the exception raised, the player objects
\* afterwards (in the caller's order), the factor graph and the message
\* updates made.
adjust_players(pls) ==
  LET order == sort_players(pls, Len(pls))
      g == adjust_graph(pls, order)
      steps == adjust_schedule(g)
      k == first_raising(g, steps)
      place(i) == CHOOSE q \in 1..Len(order) : order[q] = i
  IN  IF k > 0
        THEN [raised |-> "ZeroDivisionError", players |-> pls, graph |-> g,
              steps |-> SubSeq(steps, 1, k)]
        ELSE [raised |-> "none",
              players |-> [i \in 1..Len(pls) |->
                             LET new == adjust_skill(pls, order, place(i))
                             IN  [pls[i] EXCEPT !.skill = <<new.mu, new.sigma>>]],
              graph |-> g, steps |-> steps]

----------------------------------------------------------------------------
(* One call of update_trueskill_team on a table and one call of             *)
(* AdjustPlayers on a list of players.                                      *)

\* Most teams in a call, most players in a list.
MaxTeams == 3

Alice == <<"alice">>
Bob == <<"bob">>
Dave == <<"dave">>
OpenSilver == <<"open:", "silver">>

\* Members and contributions of the teams a caller passes: well-formed ones,
\* lists of unequal length, and zero coefficients.
TeamShapes ==
  {<<<<Alice>>, <<ONE>>>>,
   <<<<Bob>>, <<ONE>>>>,
   <<<<OpenSilver, Alice>>, <<HALF, HALF>>>>,
   <<<<Alice>>, <<HALF, HALF>>>>,
   <<<<OpenSilver, Bob>>, <<ONE>>>>,
   <<<<Bob>>, <<0>>>>,
   <<<<OpenSilver, Alice>>, <<HALF, 0>>>>}

TeamRanks == {0, 1}

TeamInputs ==
  UNION {[1..n -> {TeamResult(sh[1], sh[2], r) : sh \in TeamShapes, r \in TeamRanks}]
           : n \in 0..MaxTeams}

\* A record as an earlier update left it.
UpdatedRecord == [mu |-> 810000, sigma |-> 200000, gamma |-> ZERO,
                  floor |-> Some(210000), ceil |-> Some(1410000)]

\* The table the call is made on: its kind, its collection and its dict.
TeamTables ==
  {[kind |-> "SkillTable", coll |-> EmptyDict, dict |-> EmptyDict],
   [kind |-> "DbBackedSkillTable", coll |-> Put(EmptyDict, Alice, UpdatedRecord),
    dict |-> EmptyDict],
   [kind |-> "DbBackedSkillTable", coll |-> EmptyDict,
    dict |-> Put(Put(EmptyDict, Alice, UpdatedRecord), Dave, UpdatedRecord)]}

PlayerSkills == {<<MU_PLAYER, SIGMA_INIT>>, <<810000, 200000>>}

PlayerLists ==
  UNION {[1..n -> {[skill |-> sk, rank |-> r] : sk \in PlayerSkills, r \in TeamRanks}]
           : n \in 1..MaxTeams}

\* The key under which the table holds the player at place i of the list.
PlayerKeys == <<Alice, Bob, Dave>>

\* One single-member team per player, contribution 1.0, and the table that
\* holds the players' (mu, sigma) with gamma = GAMMA.
single_teams(pls) == [i \in 1..Len(pls) |-> TeamResult(<<PlayerKeys[i]>>, <<ONE>>, pls[i].rank)]

table_of(pls, gamma) ==
  [k \in {PlayerKeys[i] : i \in 1..Len(pls)} |->
     LET i == CHOOSE j \in 1..Len(pls) : PlayerKeys[j] = k
     IN  SkillInfo(pls[i].skill[1], pls[i].skill[2], gamma)]

InitTeam ==
  /\ BETA = set_parameters(Unset, Unset, Unset, Unset).BETA
  /\ EPSILON = set_parameters(Unset, Unset, Unset, Unset).EPSILON
  /\ set_call = NoCall
  /\ missing_calls = [k \in TableKeys |-> 0]
  /\ store_reads = [k \in TableKeys |-> 0]
  /\ last_op = NoOp
  /\ tu = NoCall
  /\ adj = NoCall
  /\ \/ /\ GAMMA = set_parameters(Unset, Unset, Unset, Unset).GAMMA
        /\ given_teams \in TeamInputs
        /\ given_players = <<>>
        /\ \E t \in TeamTables :
             tblKind = t.kind /\ coll = t.coll /\ skill_infos = t.dict
     \/ /\ \E gamma \in GammaInputs :
             GAMMA = set_parameters(Unset, Unset, Unset, gamma).GAMMA
        /\ given_players \in PlayerLists
        /\ given_teams = single_teams(given_players)
        /\ tblKind = "SkillTable"
        /\ coll = EmptyDict
        /\ skill_infos = table_of(given_players, GAMMA)

\* update_trueskill_team(given_teams, table).  The list is sorted in place.
CallUpdateTeam ==
  /\ ~tu.called
  /\ LET r == team_update(given_teams, tblKind, coll, skill_infos)
     IN  /\ skill_infos' = r.table
         /\ given_teams' = r.sorted
         /\ tu' = [called |-> TRUE, given |-> given_teams, raised |-> r.raised,
                   graph |-> r.graph, steps |-> r.steps, skills |-> r.skills]
  /\ UNCHANGED <<tblKind, coll, missing_calls, store_reads, last_op,
                 given_players, adj, nodeVars, rankVars, driverVars, paramVars>>

\* AdjustPlayers(given_players).  The list keeps its order; the skill
\* attributes of the objects are assigned.
CallAdjustPlayers ==
  /\ ~adj.called
  /\ LET r == adjust_players(given_players)
     IN  /\ given_players' = r.players
         /\ adj' = [called |-> TRUE, given |-> given_players, raised |-> r.raised,
                    graph |-> r.graph, steps |-> r.steps]
  /\ UNCHANGED <<given_teams, tu, tableVars, nodeVars, rankVars, driverVars, paramVars>>

NextTeam ==
  \/ CallUpdateTeam
  \/ CallAdjustPlayers

----------------------------------------------------------------------------
(* run_trueskill.update_skills_for_game *)

opening_results(acc, rks) ==
  [i \in 1..Len(acc.teams) |-> TeamResult(acc.teams[i], <<HALF, HALF>>, rks[i])]

player_results(acc, rks) ==
  [i \in 1..Len(acc.teams) |-> TeamResult(<<acc.teams[i][2]>>, <<ONE>>, rks[i])]

\* deck['points'] of a deck that did not resign raises KeyError when the
\* record has no such entry (the records are documents without a schema).
deck_raises(deck) == ~deck.resigned /\ "points" \notin DOMAIN deck

\* The two tables afterwards, the update_trueskill_team calls made, and the
\* exception that left update_skills_for_game, if any.  A deck that raises
\* does so inside the loop over the decks, before any table is touched.
update_skills_for_game(g, otbl, odb, ptbl, pdb) ==
  IF \E i \in 1..Len(g.decks) : deck_raises(g.decks[i])
    THEN [opening |-> otbl, player |-> ptbl, calls |-> <<>>, raised |-> "KeyError"]
    ELSE
      LET acc == scan_decks(g.decks, Len(g.decks))
          rks == results_to_ranks(acc.results)
          ocall == [table |-> "opening", team_results |-> opening_results(acc, rks)]
          pcall == [table |-> "player", team_results |-> player_results(acc, rks)]
      IN  [opening |-> IF ~acc.dups
                         THEN update_trueskill_team(ocall.team_results,
                                                    "DbBackedSkillTable", odb, otbl)
                         ELSE otbl,
           player  |-> update_trueskill_team(pcall.team_results,
                                             "DbBackedSkillTable", pdb, ptbl),
           calls   |-> IF ~acc.dups THEN <<ocall, pcall>> ELSE <<pcall>>,
           raised  |-> "none"]

----------------------------------------------------------------------------
(* DbBackedSkillTable.save and add_uncertainty *)

\* PrimitiveSkillInfo.to_primitive_object: the five attributes as floats.
\* (The floor and ceil attributes must have been assigned.)
to_primitive_object(info) ==
  [mu |-> info.mu, sigma |-> info.sigma, gamma |-> info.gamma,
   floor |-> Some(info.floor[1]), ceil |-> Some(info.ceil[1])]

\* save(): utils.write_object_to_db(val, self.coll, key) for every record.
save(d, db) ==
  [k \in (DOMAIN db) \cup (DOMAIN d) |->
     IF Has(d, k) THEN to_primitive_object(d[k]) ELSE db[k]]

\* strength 0.01, in hundredths
STRENGTH == 1
HUNDRED == 100

\* value.sigma*(1-strength) + 25./3*strength
inflated_sigma(sigma, strength) ==
  (sigma * (HUNDRED - strength)) \div HUNDRED + (SIGMA_INIT * strength) \div HUNDRED

inflate(info, strength) ==
  LET sigma == inflated_sigma(info.sigma, strength)
  IN  [info EXCEPT !.sigma = sigma,
                   !.floor = Some(info.mu - 3 * sigma),
                   !.ceil = Some(info.mu + 3 * sigma)]

\* A slip in add_uncertainty: skip_openings is ignored.
skipped_never(key, skip_openings) == FALSE

skipped(key, skip_openings) == skip_openings /\ startswith_open(key)

add_uncertainty(d, strength, skip_openings) ==
  [k \in DOMAIN d |->
     IF ~skipped(k, skip_openings) THEN inflate(d[k], strength) ELSE d[k]]

----------------------------------------------------------------------------
(* run_trueskill.run_trueskill_openings *)

\* Records between two checkpoints (15000 in the source; scaled down so that
\* a run of a few records crosses it).
CHECKPOINT_EVERY == 2
\* Longest stream of match records in db.games.
MaxStream == 3
\* Driver runs in one behaviour.
MaxRuns == 2
\* args.max_games when no cap is given: no loop index equals it.
NO_CAP == -1

\* A slip in the admission test: the first deck's turns are counted.
admitted_by_first_deck(g) == Len(g.decks) >= 2 /\ Len(g.decks[1].turns) >= 2

\* if len(game['decks']) >= 2 and len(game['decks'][1]['turns']) >= 2
admitted(g) == Len(g.decks) >= 2 /\ Len(g.decks[2].turns) >= 2

\* Lines 137-138 on one record: the tables afterwards and the calls made.
process_record(g, otbl, odb, ptbl, pdb) ==
  IF admitted(g) THEN update_skills_for_game(g, otbl, odb, ptbl, pdb)
                 ELSE [opening |-> otbl, player |-> ptbl, calls |-> <<>>,
                       raised |-> "none"]

\* if ind == args.max_games: break
cap_reached(i, cap) == i = cap

\* A slip in the cadence test: a checkpoint after every C-th record.
is_checkpoint_after_block(i) == (i + 1) % CHECKPOINT_EVERY = 0

\* if ind % 15000 == 0
is_checkpoint(i) == i % CHECKPOINT_EVERY = 0

\* Lines 144-147: the two tables and the two collections after a checkpoint.
checkpoint(otbl, odb, ptbl, pdb) ==
  [pdb |-> save(ptbl, pdb),
   player |-> add_uncertainty(ptbl, STRENGTH, FALSE),
   odb |-> save(otbl, odb),
   opening |-> add_uncertainty(otbl, STRENGTH, TRUE)]

\* The loop of lines 135-147 as a function: the tables and collections after
\* the first n records of gs, in one run without a cap that started with
\* empty collections.
RECURSIVE fresh_run(_, _)
fresh_run(gs, n) ==
  IF n = 0
    THEN [pdb |-> EmptyDict, player |-> EmptyDict,
          odb |-> EmptyDict, opening |-> EmptyDict]
    ELSE LET st == fresh_run(gs, n - 1)
             r == process_record(gs[n], st.opening, st.odb, st.player, st.pdb)
         IN  IF is_checkpoint(n - 1)
               THEN checkpoint(r.opening, st.odb, r.player, st.pdb)
               ELSE [pdb |-> st.pdb, player |-> r.player,
                     odb |-> st.odb, opening |-> r.opening]

Deck(name, points, resigned, turns) ==
  [name |-> name, points |-> points, resigned |-> resigned, turns |-> turns]

\* The match records a stream is made of.
GamePool ==
  { \* alice beats bob, different openings
    [decks |-> <<Deck(<<"alice">>, 5, FALSE, <<<<"silver">>, <<"silver">>, <<>>>>),
                 Deck(<<"bob">>, 3, FALSE, <<<<"silver">>, <<"copper">>, <<>>>>)>>],
    \* a draw with the same opening bought in a different order
    [decks |-> <<Deck(<<"alice">>, 3, FALSE, <<<<"copper">>, <<"silver">>>>),
                 Deck(<<"bob">>, 3, FALSE, <<<<"silver">>, <<"copper">>>>)>>],
    \* the first deck resigned in its first turn
    [decks |-> <<Deck(<<"alice">>, 0, TRUE, <<<<"copper">>>>),
                 Deck(<<"bob">>, 3, FALSE, <<<<"silver">>, <<>>>>)>>],
    \* the second deck resigned in its first turn
    [decks |-> <<Deck(<<"alice">>, 3, FALSE, <<<<"silver">>, <<>>>>),
                 Deck(<<"bob">>, 0, TRUE, <<<<"copper">>>>)>>],
    \* a solitaire game
    [decks |-> <<Deck(<<"alice">>, 5, FALSE, <<<<"silver">>, <<"silver">>>>)>>],
    \* three decks, two of them tied; one player is named like an opening
    [decks |-> <<Deck(<<"bob">>, 5, FALSE, <<<<"silver">>, <<>>>>),
                 Deck(<<"open:", "silver">>, 5, FALSE, <<<<"copper">>, <<>>>>),
                 Deck(<<"alice">>, 3, FALSE, <<<<>>, <<>>>>)>>],
    \* a record whose second deck has no 'points' entry
    [decks |-> <<Deck(<<"alice">>, 5, FALSE, <<<<"silver">>, <<"copper">>>>),
                 [name |-> <<"bob">>, resigned |-> FALSE,
                  turns |-> <<<<"copper">>, <<"copper">>>>]>>]
  }

Streams == UNION {[1..n -> GamePool] : n \in 1..MaxStream}

NoGame == [decks |-> <<>>]

\* Before the first run: no run has ended and nothing is stored.
NoRun == [ended |-> "idle", max_games |-> NO_CAP, player_collection |-> EmptyDict]

InitDriver ==
  /\ games \in Streams
  /\ pc = "idle"
  /\ runs = 0
  /\ incremental = TRUE
  /\ max_games = NO_CAP
  /\ ind = -1
  /\ game = NoGame
  /\ scannerPos = 0
  /\ scannerSaved = 0
  /\ player_skill_table = EmptyDict
  /\ opening_skill_table = EmptyDict
  /\ player_collection = EmptyDict
  /\ collection = EmptyDict
  /\ calls = <<>>
  /\ pending = [player |-> {}, opening |-> {}]
  /\ events = <<>>
  /\ run_start = NoRun

\* incremental_scanner.IncrementalScanner, by its contract: the scanner starts
\* at the cursor saved last, reset() puts it back before the first record,
\* scan() yields the records behind the cursor in order and moves the cursor
\* over each record it yields, save() stores the cursor.
scanner_load(saved) == saved
scanner_reset(pos) == 0
scanner_has_next(pos, gs) == pos < Len(gs)
scanner_next(pos, gs) == [record |-> gs[pos + 1], pos |-> pos + 1]
scanner_save(pos) == pos

\* Lines 126-133: the tables are constructed empty around their collections,
\* the scanner loads its saved cursor; a non-incremental run resets the
\* scanner and drops the opening collection.
StartRun(inc, cap) ==
  /\ pc \in {"idle", "done", "aborted"}
  /\ runs < MaxRuns
  /\ runs' = runs + 1
  /\ incremental' = inc
  /\ max_games' = cap
  /\ opening_skill_table' = EmptyDict
  /\ player_skill_table' = EmptyDict
  /\ scannerPos' = IF inc THEN scanner_load(scannerSaved)
                          ELSE scanner_reset(scanner_load(scannerSaved))
  /\ collection' = IF inc THEN collection ELSE EmptyDict
  /\ ind' = -1
  /\ game' = NoGame
  /\ calls' = <<>>
  /\ pending' = [player |-> {}, opening |-> {}]
  /\ events' = <<>>
  /\ run_start' = [ended |-> pc, max_games |-> max_games,
                   player_collection |-> player_collection]
  /\ pc' = "scan"
  /\ UNCHANGED <<games, scannerSaved, player_collection, tableVars, nodeVars, rankVars, paramVars, teamVars>>

\* Lines 135-136: the scanner yields the next record behind its cursor, or the
\* loop ends.
ScanNext ==
  /\ pc = "scan"
  /\ IF scanner_has_next(scannerPos, games)
       THEN /\ game' = scanner_next(scannerPos, games).record
            /\ scannerPos' = scanner_next(scannerPos, games).pos
            /\ ind' = ind + 1
            /\ pc' = "process"
       ELSE /\ pc' = "save"
            /\ UNCHANGED <<game, scannerPos, ind>>
  /\ UNCHANGED <<games, run_start, runs, incremental, max_games, scannerSaved,
                 player_skill_table, opening_skill_table, player_collection,
                 collection, calls, pending, events,
                 tableVars, nodeVars, rankVars, paramVars, teamVars>>

\* Lines 137-138.  No handler encloses the call: an exception that leaves
\* update_skills_for_game leaves run_trueskill_openings and ends the process.
ProcessGame ==
  /\ pc = "process"
  /\ LET r == process_record(game, opening_skill_table, collection,
                             player_skill_table, player_collection)
         touched(t) == {scannerPos : c \in {x \in 1..Len(r.calls) : r.calls[x].table = t}}
     IN  /\ opening_skill_table' = r.opening
         /\ player_skill_table' = r.player
         /\ calls' = r.calls
         /\ pending' = [player |-> pending.player \cup touched("player"),
                        opening |-> pending.opening \cup touched("opening")]
         /\ pc' = IF r.raised = "none" THEN "cap" ELSE "aborted"
  /\ UNCHANGED <<games, run_start, runs, incremental, max_games, ind, game, scannerPos,
                 scannerSaved, player_collection, collection, events,
                 tableVars, nodeVars, rankVars, paramVars, teamVars>>

\* Lines 140-141
CapCheck ==
  /\ pc = "cap"
  /\ IF cap_reached(ind, max_games)
       THEN pc' = "save" /\ events' = Append(events, "break")
       ELSE pc' = "checkpoint" /\ UNCHANGED events
  /\ UNCHANGED <<games, run_start, runs, incremental, max_games, ind, game, scannerPos,
                 scannerSaved, player_skill_table, opening_skill_table,
                 player_collection, collection, calls, pending,
                 tableVars, nodeVars, rankVars, paramVars, teamVars>>

\* Lines 143-147
Checkpoint ==
  /\ pc = "checkpoint"
  /\ IF is_checkpoint(ind)
       THEN LET c == checkpoint(opening_skill_table, collection,
                                player_skill_table, player_collection)
            IN  /\ player_collection' = c.pdb
                /\ player_skill_table' = c.player
                /\ collection' = c.odb
                /\ opening_skill_table' = c.opening
                /\ pending' = [player |-> {}, opening |-> {}]
                /\ events' = Append(events, "checkpoint")
       ELSE /\ events' = Append(events, "none")
            /\ UNCHANGED <<player_collection, player_skill_table, collection,
                           opening_skill_table, pending>>
  /\ pc' = "scan"
  /\ UNCHANGED <<games, run_start, runs, incremental, max_games, ind, game, scannerPos,
                 scannerSaved, calls,
                 tableVars, nodeVars, rankVars, paramVars, teamVars>>

\* Line 149: scanner.save()
SaveCursor ==
  /\ pc = "save"
  /\ scannerSaved' = scanner_save(scannerPos)
  /\ pc' = "done"
  /\ UNCHANGED <<games, run_start, runs, incremental, max_games, ind, game, scannerPos,
                 player_skill_table, opening_skill_table, player_collection,
                 collection, calls, pending, events,
                 tableVars, nodeVars, rankVars, paramVars, teamVars>>

NextDriver ==
  \/ \E inc \in BOOLEAN, cap \in {NO_CAP} \cup (0..(MaxStream - 1)) : StartRun(inc, cap)
  \/ ScanNext
  \/ ProcessGame
  \/ CapCheck
  \/ Checkpoint
  \/ SaveCursor

----------------------------------------------------------------------------
(* The ordering keys and ranks of the decks of one match *)

\* Most decks in a match.
MaxDecks == 3

RankDecks ==
  {Deck(<<"alice">>, p, r, t) : p \in {3, 5}, r \in BOOLEAN,
                               t \in {<<<<>>>>, <<<<>>, <<>>>>}}

InitRanks ==
  /\ rank_decks \in UNION {[1..n -> RankDecks] : n \in 1..MaxDecks}
  /\ results = <<>>
  /\ ranks = <<>>

\* Lines 86-95 for the decks of one match.
RankMatch ==
  /\ ranks = <<>>
  /\ results' = [i \in 1..Len(rank_decks) |-> ordering_key(rank_decks[i])]
  /\ ranks' = results_to_ranks(results')
  /\ UNCHANGED <<rank_decks, tableVars, nodeVars, driverVars, paramVars, teamVars>>

NextRanks == RankMatch

----------------------------------------------------------------------------
(* One record through lines 137-138, drawn from all small matches *)

TurnLists ==
  {<<<<"copper">>>>,
   <<<<"silver">>, <<"copper">>>>,
   <<<<"copper">>, <<"silver">>>>,
   <<<<"silver">>, <<>>>>}

\* A deck with a single turn is one that resigned there.
MatchDecks ==
  {Deck(n, p, Len(t) < 2, t) : n \in {<<"alice">>, <<"bob">>}, p \in {3, 5},
                               t \in TurnLists}

Matches == {[decks |-> ds] : ds \in UNION {[1..n -> MatchDecks] : n \in 1..MaxDecks}}

\* The tables when the record arrives: empty, or as an earlier match left them.
EarlierMatch ==
  [decks |-> <<Deck(<<"alice">>, 5, FALSE, <<<<"silver">>, <<"copper">>>>),
               Deck(<<"carol">>, 3, FALSE, <<<<"silver">>, <<>>>>)>>]

TablesBefore ==
  {[player |-> EmptyDict, opening |-> EmptyDict],
   process_record(EarlierMatch, EmptyDict, EmptyDict, EmptyDict, EmptyDict)}

InitMatch ==
  /\ games = <<>>
  /\ pc = "process"
  /\ runs = 1
  /\ incremental = TRUE
  /\ max_games = NO_CAP
  /\ ind = 0
  /\ game \in Matches
  /\ scannerPos = 1
  /\ scannerSaved = 0
  /\ \E t \in TablesBefore : /\ player_skill_table = t.player
                             /\ opening_skill_table = t.opening
  /\ player_collection = EmptyDict
  /\ collection = EmptyDict
  /\ calls = <<>>
  /\ pending = [player |-> {}, opening |-> {}]
  /\ events = <<>>
  /\ run_start = NoRun

----------------------------------------------------------------------------
(* Specifications.  Each runs one part of the program; the variables of    *)
(* the other parts rest.                                                   *)

RestTable ==
  /\ tblKind = "SkillTable" /\ skill_infos = EmptyDict /\ coll = EmptyDict
  /\ missing_calls = [k \in TableKeys |-> 0] /\ store_reads = [k \in TableKeys |-> 0]
  /\ last_op = NoOp
RestNode == value = Flat /\ factors = EmptyDict /\ exc = "none"
RestRanks == rank_decks = <<>> /\ results = <<>> /\ ranks = <<>>
RestDriver ==
  /\ games = <<>> /\ pc = "off" /\ runs = 0 /\ incremental = TRUE
  /\ max_games = NO_CAP /\ ind = -1 /\ game = NoGame /\ scannerPos = 0
  /\ scannerSaved = 0 /\ player_skill_table = EmptyDict
  /\ opening_skill_table = EmptyDict /\ player_collection = EmptyDict
  /\ collection = EmptyDict /\ calls = <<>>
  /\ pending = [player |-> {}, opening |-> {}] /\ events = <<>>
  /\ run_start = NoRun

RestParams == InitParams
RestTeam == given_teams = <<>> /\ tu = NoCall /\ given_players = <<>> /\ adj = NoCall

\* The rating driver.
Init == RestParams /\ RestTeam /\ InitDriver /\ RestTable /\ RestNode /\ RestRanks
Next == NextDriver
Spec == Init /\ [][Next]_vars

\* One match record through the driver's loop body.
InitOneMatch == RestParams /\ RestTeam /\ InitMatch /\ RestTable /\ RestNode /\ RestRanks
NextOneMatch == ProcessGame
SpecMatch == InitOneMatch /\ [][NextOneMatch]_vars

\* A skill table under get, set_mu, set_sigma.
InitSkillTable == RestParams /\ RestTeam /\ InitTable /\ RestNode /\ RestRanks /\ RestDriver
NextSkillTable == NextTable
SpecTable == InitSkillTable /\ [][NextSkillTable]_vars

\* A variable node under the updates of its factors.
InitVariable == RestParams /\ RestTeam /\ InitNode /\ RestTable /\ RestRanks /\ RestDriver
NextVariable == NextNode
SpecVariable == InitVariable /\ [][NextVariable]_vars

\* A variable node one of whose factors is a truncation factor.
InitTruncate == RestParams /\ RestTeam /\ InitNode /\ RestTable /\ RestRanks /\ RestDriver
NextTruncate == NextTruncateNode
SpecTruncate == InitTruncate /\ [][NextTruncate]_vars

\* One team update and one single-player update.
InitTeamUpdate == InitTeam /\ RestNode /\ RestRanks /\ RestDriver
NextTeamUpdate == NextTeam
SpecTeam == InitTeamUpdate /\ [][NextTeamUpdate]_vars

\* The global parameters under SetParameters.
InitParameters == InitParams /\ RestTable /\ RestNode /\ RestRanks /\ RestDriver /\ RestTeam
NextParameters == NextParams
SpecParams == InitParameters /\ [][NextParameters]_vars

\* The ranks of one match.
InitRanking == RestParams /\ RestTeam /\ InitRanks /\ RestTable /\ RestNode /\ RestDriver
NextRanking == NextRanks
SpecRanks == InitRanking /\ [][NextRanking]_vars

----------------------------------------------------------------------------
(* Claims *)

\* C1 (as claimed): every key of a skill table that get, set_mu or set_sigma
\* has touched has floor = mu - 3*sigma and ceil = mu + 3*sigma.
C1_FloorAndCeilDerived ==
  \A k \in DOMAIN skill_infos :
    /\ skill_infos[k].floor = Some(skill_infos[k].mu - 3 * skill_infos[k].sigma)
    /\ skill_infos[k].ceil = Some(skill_infos[k].mu + 3 * skill_infos[k].sigma)

RECURSIVE SumPi(_, _)
SumPi(msgs, fs) ==
  IF fs = {} THEN 0
  ELSE LET f == CHOOSE x \in fs : TRUE IN msgs[f].pi + SumPi(msgs, fs \ {f})

RECURSIVE SumTau(_, _)
SumTau(msgs, fs) ==
  IF fs = {} THEN 0
  ELSE LET f == CHOOSE x \in fs : TRUE IN msgs[f].tau + SumTau(msgs, fs \ {f})

\* C2: the value of a variable is the product of the messages recorded for
\* its attached factors: pi is the sum of their pi, tau the sum of their tau.
C2_ValueIsProductOfMessages ==
  /\ value.pi = SumPi(factors, DOMAIN factors)
  /\ value.tau = SumTau(factors, DOMAIN factors)

\* C2 witness: one factor has written the whole marginal (its recorded message
\* has negative precision, which only UpdateValue produces) while another has
\* sent a proper message.
C2_Witness ==
  \E f \in DOMAIN factors, g \in DOMAIN factors :
    factors[f].pi < 0 /\ factors[g].pi > 0 /\ value.pi > 0

DistinctKeys == {results[i] : i \in 1..Len(results)}

\* C8 (as claimed): the ranks are dense: equal keys get equal ranks, a smaller
\* key a smaller rank, and k distinct keys use exactly the ranks 0..k-1.
C8_DenseRanks ==
  ranks # <<>> =>
    /\ \A i, j \in 1..Len(results) :
         /\ results[i] = results[j] => ranks[i] = ranks[j]
         /\ TupleLess(results[i], results[j]) => ranks[i] < ranks[j]
    /\ {ranks[i] : i \in 1..Len(ranks)} = 0..(Cardinality(DistinctKeys) - 1)

\* C8 (amended): the key of a deck is (-points, turn count) with -points = 1000
\* for a resigned deck, and the rank of a deck is the number of decks with a
\* strictly smaller key; so equal keys get equal ranks and a smaller key a
\* smaller rank, but tied decks leave a gap behind them.
C8_RankCountsSmallerKeys ==
  ranks # <<>> =>
    /\ Len(ranks) = Len(rank_decks)
    /\ \A i \in 1..Len(rank_decks) :
         /\ results[i][1] = IF rank_decks[i].resigned THEN 1000
                                                      ELSE 0 - rank_decks[i].points
         /\ results[i][2] = Len(rank_decks[i].turns)
         /\ ranks[i] = Cardinality({j \in 1..Len(results) :
                                      TupleLess(results[j], results[i])})
    /\ \A i, j \in 1..Len(results) :
         /\ results[i] = results[j] => ranks[i] = ranks[j]
         /\ TupleLess(results[i], results[j]) => ranks[i] < ranks[j]

\* C8 witness: two tied decks ahead of a third, which gets rank 2.
C8_Witness ==
  /\ Len(ranks) = 3
  /\ \E i, j, k \in 1..3 : i # j /\ ranks[i] = 0 /\ ranks[j] = 0 /\ ranks[k] = 2

\* (mu, sigma, gamma) of a record.
core(info) == [mu |-> info.mu, sigma |-> info.sigma, gamma |-> info.gamma]

\* What a lookup of key k answers: the in-memory record, or else the record
\* the missing policy hydrates from the collection.
lookup(tbl, db, k) == core(get_skill_info("DbBackedSkillTable", db, tbl, k)[k])

\* C3 (as claimed): when scanner.save() is about to run, every match update
\* applied to the in-memory tables has been written to the collections.
C3_CursorSavedAfterFlush ==
  pc = "save" => pending.player = {} /\ pending.opening = {}

\* C4 (as claimed): a run that stopped after a prefix of the stream, followed
\* by an incremental run over the rest, leaves every key with the skill a
\* single fresh run over the whole stream gives it.
C4_ResumedRunEqualsFreshRun ==
  (pc = "done" /\ runs = 2 /\ incremental /\ ind >= 0 /\ scannerPos = Len(games)) =>
    LET fresh == fresh_run(games, Len(games))
    IN  /\ \A k \in DOMAIN fresh.player :
             lookup(player_skill_table, player_collection, k) = core(fresh.player[k])
        /\ \A k \in DOMAIN fresh.opening :
             lookup(opening_skill_table, collection, k) = core(fresh.opening[k])

\* C5 (as claimed): when a run has completed, every key of the player table
\* and of the opening table has the same (mu, sigma, gamma) in its collection.
C5_StoredEqualsInMemoryAtEnd ==
  pc = "done" =>
    /\ \A k \in DOMAIN player_skill_table :
         Has(player_collection, k) /\ core(player_collection[k]) = core(player_skill_table[k])
    /\ \A k \in DOMAIN opening_skill_table :
         Has(collection, k) /\ core(collection[k]) = core(opening_skill_table[k])

\* The rank the claims give deck i of match g: the decks with a smaller key.
RankOfDeck(g, i) ==
  Cardinality({j \in 1..Len(g.decks) :
                 TupleLess(ordering_key(g.decks[j]), ordering_key(g.decks[i]))})

\* A match is dubious if a deck has fewer than two turns or two decks have
\* the same opening identifier.
Dubious(g) ==
  \/ \E i \in 1..Len(g.decks) : Len(g.decks[i].turns) < 2
  \/ \E i, j \in 1..Len(g.decks) : i # j /\ open_name(g.decks[i]) = open_name(g.decks[j])

PlayerCall(g) ==
  [table |-> "player",
   team_results |-> [i \in 1..Len(g.decks) |->
                       TeamResult(<<g.decks[i].name>>, <<ONE>>, RankOfDeck(g, i))]]

OpeningCall(g) ==
  [table |-> "opening",
   team_results |-> [i \in 1..Len(g.decks) |->
                       TeamResult(<<open_name(g.decks[i]), g.decks[i].name>>,
                                  <<HALF, HALF>>, RankOfDeck(g, i))]]

\* C6: a match that is passed to update_skills_for_game updates the player
\* table with one team [player_name], [1.0] per deck, and the opening table
\* with teams [opening_id, player_name], [0.5, 0.5] if and only if it is not
\* dubious; a dubious match leaves the opening table as it was.
C6_OpeningTableIffNotDubious ==
  [][(pc = "process" /\ calls' # <<>>) =>
       /\ calls' = IF Dubious(game) THEN <<PlayerCall(game)>>
                                    ELSE <<OpeningCall(game), PlayerCall(game)>>
       /\ \A i \in 1..Len(game.decks) : Has(player_skill_table', game.decks[i].name)
       /\ Dubious(game) => opening_skill_table' = opening_skill_table
       /\ ~Dubious(game) =>
            \A i \in 1..Len(game.decks) :
              /\ Has(opening_skill_table', open_name(game.decks[i]))
              /\ Has(opening_skill_table', game.decks[i].name)
              /\ opening_skill_table'[game.decks[i].name].sigma
                   # lookup(opening_skill_table, collection, game.decks[i].name).sigma
    ]_vars

\* C6 witness: a match whose decks all have two turns but share an opening has
\* been processed on non-empty tables with the player call alone.
C6_Witness ==
  /\ pc = "cap"
  /\ Len(calls) = 1
  /\ \A i \in 1..Len(game.decks) : Len(game.decks[i].turns) >= 2
  /\ opening_skill_table # EmptyDict

\* Fewer than two decks of the match have two turns.
LacksTwoFullDecks(g) ==
  Cardinality({i \in 1..Len(g.decks) : Len(g.decks[i].turns) >= 2}) < 2

\* C7 (as claimed): a record that lacks two decks with two turns each is
\* rejected: no table is updated for it.
C7_RejectedUnlessTwoFullDecks ==
  [][(pc = "process" /\ LacksTwoFullDecks(game)) =>
       /\ calls' = <<>>
       /\ UNCHANGED <<player_skill_table, opening_skill_table>>
    ]_vars

\* C7 (amended): a record is rejected if and only if it has fewer than two
\* decks or its second deck has fewer than two turns; a rejected record
\* updates no table, every other record updates the player table.
C7_RejectedBySecondDeck ==
  [][pc = "process" =>
       IF Len(game.decks) >= 2 /\ Len(game.decks[2].turns) >= 2
         THEN /\ calls' # <<>>
              /\ \A i \in 1..Len(game.decks) :
                   Has(player_skill_table', game.decks[i].name)
         ELSE /\ calls' = <<>>
              /\ UNCHANGED <<player_skill_table, opening_skill_table>>
    ]_vars

\* C7 witness: a record whose first deck has a single turn has been processed.
C7_Witness ==
  /\ pc = "cap"
  /\ calls # <<>>
  /\ Len(game.decks[1].turns) < 2

\* The checkpoints among the entries lo..hi of a run's record.
CheckpointsIn(ev, lo, hi) == Cardinality({j \in lo..hi : ev[j] = "checkpoint"})

InflatedFrom(before, after) ==
  /\ 100 * after.sigma <= 99 * before.sigma + SIGMA_INIT
  /\ 100 * after.sigma > 99 * before.sigma + SIGMA_INIT - 200

\* The step ends the iteration of a scanned record with a checkpoint.
CheckpointStep ==
  /\ Len(events') = Len(events) + 1
  /\ events'[Len(events')] = "checkpoint"

C10_InflationFrame ==
  [][CheckpointStep =>
       /\ DOMAIN player_skill_table' = DOMAIN player_skill_table
       /\ DOMAIN opening_skill_table' = DOMAIN opening_skill_table
       /\ \A k \in DOMAIN player_skill_table :
            LET before == player_skill_table[k]
                after == player_skill_table'[k]
            IN  /\ InflatedFrom(before, after)
                /\ after.floor = Some(after.mu - 3 * after.sigma)
                /\ after.ceil = Some(after.mu + 3 * after.sigma)
                /\ after.mu = before.mu /\ after.gamma = before.gamma
       /\ \A k \in DOMAIN opening_skill_table :
            LET before == opening_skill_table[k]
                after == opening_skill_table'[k]
            IN  IF k[1] = "open:"
                  THEN after = before
                  ELSE /\ InflatedFrom(before, after)
                       /\ after.floor = Some(after.mu - 3 * after.sigma)
                       /\ after.ceil = Some(after.mu + 3 * after.sigma)
                       /\ after.mu = before.mu /\ after.gamma = before.gamma
    ]_vars

\* C10 witness: right after a checkpoint the opening table holds an opening
\* whose sigma is the one just stored and a player whose sigma has moved off
\* the one just stored, as has a player's in the player table.
C10_Witness ==
  /\ pc = "scan"
  /\ events # <<>> /\ events[Len(events)] = "checkpoint"
  /\ \E k \in DOMAIN opening_skill_table :
       k[1] = "open:" /\ opening_skill_table[k].sigma = collection[k].sigma
  /\ \E k \in DOMAIN opening_skill_table :
       k[1] # "open:" /\ opening_skill_table[k].sigma # collection[k].sigma
  /\ \E k \in DOMAIN player_skill_table :
       player_skill_table[k].sigma # player_collection[k].sigma

\* The records the current run has scanned and passed to
\* update_skills_for_game.
UpdatedInRun ==
  {i \in (scannerPos - ind)..scannerPos : i >= 1 /\ admitted(games[i])}

\* C11 (as claimed): a run with max_games = N that has left its loop has
\* applied skill updates for at most N records.
C11_AtMostCapUpdated ==
  (pc \in {"save", "done"} /\ max_games >= 0) => Cardinality(UpdatedInRun) <= max_games

\* C14 (as claimed): no match record makes the driver end without finishing
\* its loop and saving the scanner cursor.
C14_NeverAborted == pc # "aborted"

\* C12: a lookup of a key the table holds returns the record as it is, calls
\* no missing policy and reads no store; an operation on a key the table does
\* not hold calls the missing policy once and inserts its record; over the
\* table's lifetime the policy is called and the store is read at most once
\* per key, and a record changes only in the attribute a set operation on
\* its key assigns (and floor and ceil with sigma).
C12_LookupOrInitialize ==
  [][LET k == last_op'.key
     IN  /\ (last_op'.op = "get" /\ Has(skill_infos, k)) =>
               /\ skill_infos' = skill_infos
               /\ missing_calls' = missing_calls /\ store_reads' = store_reads
         /\ (last_op'.op # "none" /\ ~Has(skill_infos, k)) =>
               /\ Has(skill_infos', k)
               /\ missing_calls'[k] = 1
               /\ store_reads'[k] = IF tblKind = "DbBackedSkillTable" THEN 1 ELSE 0
               /\ last_op'.op = "get" => skill_infos'[k] = missing_func(tblKind, coll, k)
         /\ \A x \in TableKeys : missing_calls'[x] <= 1 /\ store_reads'[x] <= 1
         /\ \A x \in DOMAIN skill_infos :
               /\ Has(skill_infos', x)
               /\ x # k => skill_infos'[x] = skill_infos[x]
               /\ skill_infos'[x].gamma = skill_infos[x].gamma
               /\ last_op'.op # "set_mu" => skill_infos'[x].mu = skill_infos[x].mu
               /\ last_op'.op # "set_sigma" => skill_infos'[x].sigma = skill_infos[x].sigma
    ]_vars

\* C12 witness: a key hydrated from the collection was given another mu and
\* then looked up again; its one store read is the only one.
C12_Witness ==
  /\ tblKind = "DbBackedSkillTable"
  /\ last_op.op = "get"
  /\ Has(coll, last_op.key) /\ Has(skill_infos, last_op.key)
  /\ skill_infos[last_op.key].mu # coll[last_op.key].mu
  /\ store_reads[last_op.key] = 1

\* C15 (as claimed): a TruncateFactor.Update whose precondition c > 0 and
\* W < 1 fails leaves the variable's value and recorded messages as they
\* were and raises nothing.
C15_DegenerateTruncationSkipped ==
  [][\A f \in FactorIds, V \in TruncV, W \in TruncW :
       (/\ TruncateUpdate(f, V, W)
        /\ truncate_c(value, factors[f]) <= 0 \/ W >= 2)
         => (value' = value /\ factors' = factors /\ exc' = "none")
    ]_vars

\* C16 (as claimed): a SetParameters call that is given both epsilon and
\* draw_probability reports an error and leaves BETA, EPSILON and GAMMA as
\* they were.
C16_BothEpsilonAndDrawProbabilityRejected ==
  [][(/\ set_call'.called
      /\ set_call'.epsilon # Unset
      /\ set_call'.draw_probability # Unset)
       => (/\ set_call'.raised # "none"
           /\ UNCHANGED <<BETA, EPSILON, GAMMA>>)
    ]_vars

\* A team result whose members and contributions differ in length.
UnequalLengths(trs) ==
  \E m \in 1..Len(trs) : Len(trs[m].members) # Len(trs[m].contributions)

\* A team result with a zero contribution coefficient.
ZeroCoefficient(trs) ==
  \E m \in 1..Len(trs) : \E j \in 1..Len(trs[m].contributions) :
    trs[m].contributions[j] = 0

\* C13 (as claimed): a call of update_trueskill_team with team results of
\* unequal members/contributions lengths, with a zero contribution
\* coefficient, or with an empty team list ends with an exception.
C13_BadShapeRaises ==
  (/\ tu.called
   /\ UnequalLengths(tu.given) \/ ZeroCoefficient(tu.given) \/ tu.given = <<>>)
    => tu.raised # "none"

\* The message update the claims place at position q of a call on np
\* players in nt teams, the terms of team m being terms[m]: np Start, np
\* UpdateValue, nt UpdateSum; 5 rounds of (nt-1 UpdateSum, nt-1 Update,
\* nt-1 pairs UpdateTerm(0), UpdateTerm(1)); UpdateTerm for every term of
\* every team; np UpdateMean.
ClaimedStep(g, q) ==
  LET np == g.ss
      nt == g.ts
      nd == g.ds
      down == 2 * np + nt
      loop == 5 * 4 * nd
  IN  IF q <= np THEN Step("Start", "skill", q, 0)
      ELSE IF q <= 2 * np THEN Step("UpdateValue", "skill_to_perf", q - np, 0)
      ELSE IF q <= down THEN Step("UpdateSum", "perf_to_team", q - 2 * np, 0)
      ELSE IF q <= down + loop
        THEN LET r == (q - down - 1) % (4 * nd)
             IN  IF r < nd THEN Step("UpdateSum", "team_diff", r + 1, 0)
                 ELSE IF r < 2 * nd THEN Step("Update", "trunc", r - nd + 1, 0)
                 ELSE Step("UpdateTerm", "team_diff",
                           ((r - 2 * nd) \div 2) + 1, (r - 2 * nd) % 2)
      ELSE IF q <= down + loop + np
        THEN LET p == <<"p", q - down - loop>>
                 m == CHOOSE m \in 1..nt :
                        \E t \in 1..Len(g.perf_to_team[m].terms) :
                          g.perf_to_team[m].terms[t] = p
                 t == CHOOSE t \in 1..Len(g.perf_to_team[m].terms) :
                        g.perf_to_team[m].terms[t] = p
             IN  Step("UpdateTerm", "perf_to_team", m, t - 1)
      ELSE Step("UpdateMean", "skill_to_perf", q - down - loop - np, 0)

\* The number of message updates of a complete call.
ClaimedLength(g) == 2 * g.ss + g.ts + 5 * 4 * g.ds + g.ss + g.ss

\* C18: the message updates of a call of update_trueskill_team are made in
\* the order: every prior's Start, every skill-to-perf UpdateValue, every
\* perf-to-team UpdateSum, then exactly 5 rounds of (UpdateSum of every
\* team-difference sum, Update of every truncation, UpdateTerm(0) and
\* UpdateTerm(1) of every team-difference sum), then UpdateTerm of every
\* term of every perf-to-team sum, then every UpdateMean; a call that returns
\* makes all of them, and the skill table is written after the last one
\* only, first set_mu then set_sigma for each player.
C18_MessageSchedule ==
  (tu.called /\ tu.raised # "AssertionError") =>
    LET g == tu.graph
        n == ClaimedLength(g)
    IN  /\ \A q \in 1..Len(tu.steps) :
             IF q <= n
               THEN tu.steps[q] = ClaimedStep(g, q)
               ELSE /\ tu.raised = "none"
                    /\ tu.steps[q].layer = "skill_table"
                    /\ tu.steps[q].i = ((q - n) + 1) \div 2
                    /\ tu.steps[q].op = IF (q - n) % 2 = 1 THEN "set_mu" ELSE "set_sigma"
        /\ tu.raised = "none" => Len(tu.steps) = n + 2 * g.ss
        /\ tu.raised # "none" => Len(tu.steps) <= n

\* C18 witness: a call on three teams, one of them with two members, has
\* returned.
C18_Witness ==
  /\ tu.called /\ tu.raised = "none"
  /\ tu.graph.ts = 3 /\ tu.graph.ss = 4

\* The place the team at place i of the caller's list gets in a stable sort
\* by rank.
StablePlace(trs, i) ==
  1 + Cardinality({j \in 1..Len(trs) : trs[j].rank < trs[i].rank})
    + Cardinality({j \in 1..(i - 1) : trs[j].rank = trs[i].rank})

\* C19: update_trueskill_team sorts the team results by rank, ascending,
\* teams of equal rank keeping the caller's order; the graph has one
\* difference variable, one team-difference sum and one truncation factor
\* per pair of teams adjacent in that order, and the truncation factor of a
\* pair is the draw factor if and only if the two ranks are equal.
C19_AdjacentPairsWinOrDraw ==
  tu.called =>
    /\ Len(given_teams) = Len(tu.given)
    /\ \A i \in 1..Len(tu.given) : given_teams[StablePlace(tu.given, i)] = tu.given[i]
    /\ (tu.graph # NoGraph /\ tu.given # <<>>) =>
          /\ tu.graph.ts = Len(given_teams)
          /\ tu.graph.ds = Len(given_teams) - 1
          /\ Len(tu.graph.team_diff) = Len(given_teams) - 1
          /\ Len(tu.graph.trunc) = Len(given_teams) - 1
          /\ \A m \in 1..(Len(given_teams) - 1) :
                /\ tu.graph.team_diff[m].sum = <<"d", m>>
                /\ tu.graph.team_diff[m].terms = <<<<"t", m>>, <<"t", m + 1>>>>
                /\ tu.graph.trunc[m].var = <<"d", m>>
                /\ (tu.graph.trunc[m].kind = "draw")
                     <=> (given_teams[m].rank = given_teams[m + 1].rank)
                /\ (tu.graph.trunc[m].kind = "win")
                     <=> (given_teams[m].rank < given_teams[m + 1].rank)

\* C19 witness: three teams given out of rank order, two of them tied: the
\* sorted list has a draw pair and a win pair.
C19_Witness ==
  /\ tu.called /\ tu.raised = "none"
  /\ Len(tu.given) = 3
  /\ tu.given # given_teams
  /\ \E i, j \in 1..3 : i < j /\ tu.given[i].rank = tu.given[j].rank
                              /\ tu.given[i] # tu.given[j]
  /\ \E m, n \in 1..2 : tu.graph.trunc[m].kind = "draw" /\ tu.graph.trunc[n].kind = "win"

\* The keys that occur as members in the team results.
Members(trs) ==
  UNION {{trs[m].members[j] : j \in 1..Len(trs[m].members)} : m \in 1..Len(trs)}

\* C20: a call of update_trueskill_team keeps every record the table held,
\* with its gamma; it leaves the records of keys that are not members of
\* the team results as they were, and the keys it inserts are members, with
\* the gamma the missing policy gives them.
C20_TeamUpdateFrame ==
  [][(~tu.called /\ tu'.called) =>
       LET M == Members(given_teams)
       IN  /\ \A k \in DOMAIN skill_infos :
                /\ Has(skill_infos', k)
                /\ skill_infos'[k].gamma = skill_infos[k].gamma
                /\ k \notin M => skill_infos'[k] = skill_infos[k]
           /\ \A k \in DOMAIN skill_infos' :
                ~Has(skill_infos, k) =>
                  /\ k \in M
                  /\ skill_infos'[k].gamma = missing_func(tblKind, coll, k).gamma
    ]_vars

\* C20 witness: a call has returned on a table that holds a key that is not
\* a member and held a member, whose mean has changed; another member was
\* inserted.
C20_Witness ==
  /\ tu.called /\ tu.raised = "none"
  /\ Has(skill_infos, Dave) /\ Dave \notin Members(given_teams)
  /\ Alice \in Members(given_teams) /\ skill_infos[Alice].mu # UpdatedRecord.mu
  /\ Has(skill_infos, Bob)

\* The message updates among the calls of a team update (the rest are the
\* writes to the table).
MessageSteps(steps) == SelectSeq(steps, LAMBDA st : st.layer # "skill_table")

\* C17: AdjustPlayers on a list of players and update_trueskill_team on one
\* single-member team per player, contribution 1.0, with a table that holds
\* the players' (mu, sigma) and gamma = GAMMA, build the same factor graph,
\* make the same message updates in the same order, end the same way, and
\* give every player the same (mu, sigma).
C17_AdjustPlayersIsTeamUpdate ==
  (tu.called /\ adj.called /\ adj.given # <<>>) =>
    /\ tu.graph = adj.graph
    /\ MessageSteps(tu.steps) = adj.steps
    /\ tu.raised = adj.raised
    /\ \A i \in 1..Len(given_players) :
         given_players[i].skill =
           <<skill_infos[PlayerKeys[i]].mu, skill_infos[PlayerKeys[i]].sigma>>

\* C17 witness: both calls have returned for three players given out of rank
\* order, two of them tied with different skills, and the skills have moved.
C17_Witness ==
  /\ tu.called /\ adj.called
  /\ tu.raised = "none"
  /\ Len(adj.given) = 3
  /\ adj.given[1].rank > adj.given[3].rank
  /\ \E i, j \in 1..3 : /\ i # j
                         /\ adj.given[i].rank = adj.given[j].rank
                         /\ adj.given[i].skill # adj.given[j].skill
  /\ \A i \in 1..3 : given_players[i].skill # adj.given[i].skill

\* The record the missing policy of a table of the given kind makes for a
\* key its store holds nothing about: the initial prior of the key.
InitialValues(kind, k) == missing_func(kind, EmptyDict, k)

\* A call of update_trueskill_team that raises.
RaisingCall == ~tu.called /\ tu'.called /\ tu'.raised # "none"

\* C21 as stated: a call of update_trueskill_team that raises has modified
\* no record the table held, and its only change to the table is the
\* insertion of the member keys the table did not hold, at their initial
\* values.
C21_InsertedAtInitialValues ==
  [][RaisingCall =>
       /\ \A k \in DOMAIN skill_infos :
            Has(skill_infos', k) /\ skill_infos'[k] = skill_infos[k]
       /\ \A k \in DOMAIN skill_infos' :
            ~Has(skill_infos, k) =>
              /\ k \in Members(given_teams)
              /\ skill_infos'[k].mu = InitialValues(tblKind, k).mu
              /\ skill_infos'[k].sigma = InitialValues(tblKind, k).sigma
    ]_vars

\* C21: a call of update_trueskill_team that raises has modified no record
\* the table held; its only change to the table is the insertion of every
\* member key the table did not hold, with the record the table's missing
\* policy gives it: the initial prior, or the stored record when the table
\* is store-backed and its collection holds the key.
C21_RaiseInsertsMissingMembersOnly ==
  [][RaisingCall =>
       /\ \A k \in DOMAIN skill_infos :
            Has(skill_infos', k) /\ skill_infos'[k] = skill_infos[k]
       /\ \A k \in DOMAIN skill_infos' :
            ~Has(skill_infos, k) =>
              /\ k \in Members(given_teams)
              /\ skill_infos'[k] = missing_func(tblKind, coll, k)
              /\ (~Has(coll, k) \/ tblKind = "SkillTable") =>
                    skill_infos'[k] = InitialValues(tblKind, k)
       /\ \A k \in Members(given_teams) : Has(skill_infos', k)
    ]_vars

\* C21 witness: a call has raised in a message update on a table that held
\* the record of a member, updated earlier, and did not hold another member:
\* the first is as it was and the second is in the table with its prior.
C21_Witness ==
  /\ tu.called /\ tu.raised = "ZeroDivisionError"
  /\ Has(skill_infos, Dave) /\ Dave \notin Members(given_teams)
  /\ Alice \in Members(given_teams) /\ skill_infos[Alice] = UpdatedRecord
  /\ OpenSilver \in Members(given_teams)
  /\ skill_infos[OpenSilver] = InitialValues(tblKind, OpenSilver)

\* The members of the sorted team results, flattened: the key of every skill
\* variable, in the order of the variables.
Occurrences(trs) == member_list(trs, Len(trs))

\* The record the table gives for a key when the call begins: the one it
\* holds, or the one its missing policy makes.
PreMatchRecord(k) ==
  IF Has(skill_infos, k) THEN skill_infos[k] ELSE missing_func(tblKind, coll, k)

\* C22: in a call of update_trueskill_team every occurrence of a member key
\* has a skill variable of its own, whose prior is N(mu, sigma + gamma) of
\* the record the table gave for the key before the call, the same for all
\* occurrences of the key; when the call returns, the record of the key
\* holds the (mu, sigma) read off the variable of its last occurrence in the
\* rank-sorted, flattened member order.
C22_LastOccurrenceWins ==
  [][(~tu.called /\ tu'.called /\ tu'.raised = "none") =>
       LET occ == Occurrences(given_teams')
       IN  /\ Len(tu'.graph.skill) = Len(occ)
           /\ Len(tu'.skills) = Len(occ)
           /\ \A i, j \in 1..Len(occ) :
                i # j => tu'.graph.skill[i].var # tu'.graph.skill[j].var
           /\ \A i \in 1..Len(occ) :
                /\ tu'.graph.skill[i].mu = PreMatchRecord(occ[i].pl).mu
                /\ tu'.graph.skill[i].sigma =
                     PreMatchRecord(occ[i].pl).sigma + PreMatchRecord(occ[i].pl).gamma
           /\ \A i \in 1..Len(occ) :
                (\A j \in (i + 1)..Len(occ) : occ[j].pl # occ[i].pl) =>
                  /\ skill_infos'[occ[i].pl].mu = tu'.skills[i].mu
                  /\ skill_infos'[occ[i].pl].sigma = tu'.skills[i].sigma
    ]_vars

\* C22 witness: a call has returned in which a key is a member of two teams
\* of different rank; the two skill variables ended with different values
\* and the record holds the later one.
C22_Witness ==
  /\ tu.called /\ tu.raised = "none"
  /\ LET occ == Occurrences(given_teams)
     IN  \E i, j \in 1..Len(occ) :
           /\ i < j
           /\ occ[i].pl = occ[j].pl
           /\ \A q \in (j + 1)..Len(occ) : occ[q].pl # occ[j].pl
           /\ tu.skills[i].mu # tu.skills[j].mu
           /\ skill_infos[occ[j].pl].mu = tu.skills[j].mu
           /\ skill_infos[occ[j].pl].sigma = tu.skills[j].sigma

\* The tables of a run over the whole stream that began with empty
\* collections: every record from its initial prior.
FreshRun == fresh_run(games, Len(games))

\* A non-incremental run without a cap has gone through the stream.
RerunDone == runs = 2 /\ ~incremental /\ max_games = NO_CAP /\ pc = "done"

\* The run before went through the whole stream.
StreamProcessedBefore == run_start.ended = "done" /\ run_start.max_games = NO_CAP

\* The start of a non-incremental run resets the scanner and drops the
\* opening collection only: the player collection is kept, both tables are
\* constructed empty.
NonIncrementalStart ==
  (runs' = runs + 1 /\ ~incremental') =>
    /\ scannerPos' = 0
    /\ collection' = EmptyDict
    /\ player_collection' = player_collection
    /\ player_skill_table' = EmptyDict
    /\ opening_skill_table' = EmptyDict

\* C23 as stated: a non-incremental run resets the scanner and drops the
\* opening collection only, and after a non-incremental run over a stream
\* that was already processed the player table is not the table of a fresh
\* run, while the opening keys of the opening table have the records of a
\* fresh run.
C23_RerunNeverFresh ==
  /\ [][NonIncrementalStart]_vars
  /\ [](RerunDone /\ StreamProcessedBefore =>
          /\ player_skill_table # FreshRun.player
          /\ \A k \in (DOMAIN opening_skill_table) \cup (DOMAIN FreshRun.opening) :
               startswith_open(k) =>
                 /\ Has(opening_skill_table, k) /\ Has(FreshRun.opening, k)
                 /\ opening_skill_table[k] = FreshRun.opening[k])

\* C23: a non-incremental run resets the scanner and drops the opening
\* collection only; the player records stored when it begins are kept and
\* hydrate the player table, so after the run the player table differs from
\* the table of a fresh run exactly when the player collection held a record
\* when the run began (none is held when no admitted record came before the
\* last checkpoint of the earlier runs); the opening table, opening keys and
\* player keys alike, is the table of a fresh run.
C23_RerunHydratesStoredPlayers ==
  /\ [][NonIncrementalStart]_vars
  /\ [](RerunDone =>
          /\ (player_skill_table # FreshRun.player)
               <=> (run_start.player_collection # EmptyDict)
          /\ \A k \in DOMAIN run_start.player_collection :
               Has(player_skill_table, k)
          /\ opening_skill_table = FreshRun.opening)

\* C23 witness: a non-incremental run has gone through a stream that an
\* earlier run had processed and stored player records of; its player table
\* is not the fresh one, its opening table holds an opening key and is the
\* fresh one.
C23_Witness ==
  /\ RerunDone /\ StreamProcessedBefore
  /\ run_start.player_collection # EmptyDict
  /\ player_skill_table # FreshRun.player
  /\ opening_skill_table = FreshRun.opening
  /\ \E k \in DOMAIN opening_skill_table : startswith_open(k)

====
